---- MODULE Spec2Model ----
(***************************************************************************)
(* The project metadata store of core/project_manager.py: one JSON        *)
(* document (project_meta.json) holding plans, docs, todos, recent         *)
(* changes, per-file audit status and list variables, read and rewritten   *)
(* whole by every operation of ProjectManager.                             *)
(*                                                                         *)
(* Strings are sequences of tokens (<<"plan_", "0", "0", "1">> is          *)
(* "plan_001"), so that formatting, prefix tests and replace() are         *)
(* computed and not assumed.  Optional[str] is a sequence of length <= 1.  *)
(* Python dicts are functions on their key set, except the legacy plans    *)
(* mapping, whose iteration order the conversion to a list depends on.     *)
(***************************************************************************)
EXTENDS Integers, Sequences, FiniteSets, TLC

\* ---------------------------------------------------------------- bounds
NChunks == 2     \* write() calls one serialised document takes
MaxPlans == 2    \* create_plan is not offered beyond this many plan records
MaxTodos == 2    \* create_todo is not offered beyond this many todo records
MaxClock == 1    \* the clock stops ticking here
MaxItems == 2    \* append_to_list_variable is not offered beyond this many items
MaxCalls == 2    \* operations one step-by-step caller begins

VARIABLES
    fs,       \* the two paths of the store: meta_file and temp_file
    files,    \* the project's source files: absolute path -> file
    clock,    \* datetime.now()
    procs,    \* per caller: position inside an operation, local meta, open file
    last,     \* the operation that ran last, with what it returned or raised
    hist      \* history kept for the properties (no operation reads it)

vars == <<fs, files, clock, procs, last, hist>>

\* ------------------------------------------------------- values and strings
None == <<>>
Some(x) == <<x>>

DigitChar == <<"0", "1", "2", "3", "4", "5", "6", "7", "8", "9">>
Digit(d) == DigitChar[d + 1]

RECURSIVE Dec(_)
\* str(n) / f"{n}"
Dec(n) == IF n < 10 THEN <<Digit(n)>> ELSE Dec(n \div 10) \o <<Digit(n % 10)>>

\* f"{n:03d}"
Pad3(n) ==
    LET s == Dec(n)
    IN  IF Len(s) >= 3 THEN s ELSE [i \in 1..(3 - Len(s)) |-> "0"] \o s

PlanId(n) == <<"plan_">> \o Pad3(n)
TodoIdOfCount(n) == <<"todo_">> \o Pad3(n - 1)
TodoId(n) == <<"todo_">> \o Pad3(n)
LegacyId(directory) == <<"legacy_">> \o directory

\* s.startswith(tok)
StartsWith(s, tok) == Len(s) >= 1 /\ s[1] = tok
\* s.replace(tok, '')
Replace(s, tok) == SelectSeq(s, LAMBDA t : t # tok)

\* dict helpers
DelAll(d, k) == [x \in {} |-> d[x]]
Put(d, k, v) == [x \in (DOMAIN d) \cup {k} |-> IF x = k THEN v ELSE d[x]]
Del(d, k) == [x \in (DOMAIN d) \ {k} |-> d[x]]

InsertLast(s, x) == Append(s, x)
\* list.pop(i), list.insert(0, x)
Pop(s, i) == [j \in 1..(Len(s) - 1) |-> IF j < i THEN s[j] ELSE s[j + 1]]
Insert0(s, x) == <<x>> \o s

\* ------------------------------------------------------------- the document
default_meta ==
    [plans |-> [kind |-> "dict", items |-> <<>>],
     docs |-> <<>>,
     todos |-> <<>>,
     recent_changes |-> [current |-> <<>>, archived |-> <<>>],
     file_status |-> <<>>,
     list_variables |-> <<>>]

\* ------------------------------------------------------------ files on disk
NoFile == [exists |-> FALSE, data |-> <<>>]
File(data) == [exists |-> TRUE, data |-> data]

Hole == [hole |-> TRUE]
Chunk(meta, i) == [doc |-> meta, idx |-> i]

\* json.dump(meta, f): the text reaches the file in NChunks writes
json_dump(meta) == [i \in 1..NChunks |-> Chunk(meta, i)]
\* json.load(f) succeeds on exactly the texts json.dump produces
Parses(data) ==
    /\ Len(data) = NChunks
    /\ "doc" \in DOMAIN data[1]
    /\ data = json_dump(data[1].doc)
json_load(data) == data[1].doc

MetaPath == "meta_file"
\* self.meta_file.with_suffix('.tmp')
TempPathSelf(path) == path
temp_file_of(path) == "temp_file"

\* open(path, 'w'): create or truncate
open_w(f, path) == [f EXCEPT ![path] = File(<<>>)]

\* write(chunk) at offset off of the file now at path
write_at(f, path, off, c) ==
    LET old == f[path].data
        n == IF Len(old) > off + 1 THEN Len(old) ELSE off + 1
    IN  [f EXCEPT ![path].data =
            [i \in 1..n |-> IF i = off + 1 THEN c
                            ELSE IF i <= Len(old) THEN old[i] ELSE Hole]]

\* Path.replace(target): rename over the target
replace(f, src, dst) ==
    IF src = dst THEN f ELSE [f EXCEPT ![dst] = f[src], ![src] = NoFile]

RECURSIVE write_all(_, _, _, _)
write_all(f, path, data, off) ==
    IF off >= Len(data) THEN f
    ELSE write_all(write_at(f, path, off, data[off + 1]), path, data, off + 1)

\* _save_meta run to completion by a caller that is alone
save_meta(f, meta) ==
    LET t == temp_file_of(MetaPath)
    IN  replace(write_all(open_w(f, t), t, json_dump(meta), 0), t, MetaPath)

\* _ensure_meta_file without the test that the file is absent
EnsureAlways(f) == save_meta(f, default_meta)

\* _ensure_meta_file
ensure_meta_file(f) == IF ~f[MetaPath].exists THEN save_meta(f, default_meta) ELSE f

Readable(f) == f[MetaPath].exists /\ Parses(f[MetaPath].data)

\* _load_meta run to completion: the meta read, the files left behind, and the
\* exception the second json.load lets through
load_meta(f) ==
    IF Readable(f)
    THEN [fs |-> f, meta |-> json_load(f[MetaPath].data), exc |-> None]
    ELSE LET g == ensure_meta_file(f)
         IN  IF Readable(g)
             THEN [fs |-> g, meta |-> json_load(g[MetaPath].data), exc |-> None]
             ELSE [fs |-> g, meta |-> default_meta,
                   exc |-> Some([type |-> "JSONDecodeError", msg |-> <<>>])]

\* ------------------------------------------------- what an operation yields
\* The part of an operation between _load_meta and _save_meta: the meta to
\* save (when save is TRUE), the value returned and the exception raised.
Saved(meta, r) == [meta |-> meta, ret |-> r, exc |-> None, save |-> TRUE]
Kept(meta, r) == [meta |-> meta, ret |-> r, exc |-> None, save |-> FALSE]
Raised(meta, type, msg) ==
    [meta |-> meta, ret |-> None, save |-> FALSE,
     exc |-> Some([type |-> type, msg |-> msg])]

\* ------------------------------------------------------------------- plans
\* _convert_plans_to_list
convert_plans_to_list(meta, now) ==
    IF meta.plans.kind = "dict"
    THEN LET old_plans == meta.plans.items
         IN  [meta EXCEPT !.plans =
                [kind |-> "list",
                 items |-> [i \in 1..Len(old_plans) |->
                    [id |-> LegacyId(old_plans[i].directory),
                     content |-> old_plans[i].content,
                     directory |-> old_plans[i].directory,
                     title |-> <<"Legacy: ">> \o old_plans[i].directory,
                     created_at |-> now,
                     updated_at |-> now]]]]
    ELSE meta

\* if not isinstance(meta["plans"], list): self._convert_plans_to_list(meta)
AsList(meta, now) ==
    IF meta.plans.kind # "list" THEN convert_plans_to_list(meta, now) ELSE meta

\* index of the first plan whose id is plan_id, 0 when there is none
FirstPlan(plans, plan_id) ==
    LET hits == {i \in 1..Len(plans) : plans[i].id = plan_id}
    IN  IF hits = {} THEN 0 ELSE CHOOSE i \in hits : \A j \in hits : i <= j

NumberByLength(existing_ids) == Len(existing_ids)
\* plan_number = len(existing_ids) + 1
plan_number_of(existing_ids) == Len(existing_ids) + 1

create_plan(meta0, content, title, now) ==
    LET meta == AsList(meta0, now)
        existing_ids == [i \in 1..Len(meta.plans.items) |-> meta.plans.items[i].id]
        plan_number == plan_number_of(existing_ids)
        plan_id == PlanId(plan_number)
        new_plan == [id |-> plan_id,
                     content |-> content,
                     title |-> IF title # None /\ title[1] # <<>>
                               THEN title[1] ELSE <<"Plan ">> \o Dec(plan_number),
                     created_at |-> now,
                     updated_at |-> now]
    IN  Saved([meta EXCEPT !.plans.items = Append(@, new_plan)], plan_id)

read_plan(meta, plan_id) ==
    LET plans == meta.plans.items
    IN  IF meta.plans.kind = "list"
        THEN LET i == FirstPlan(plans, plan_id)
             IN  Kept(meta, IF i = 0 THEN None ELSE Some(plans[i]))
        ELSE LET hits == {i \in 1..Len(plans) : LegacyId(plans[i].directory) = plan_id}
             IN  IF hits = {} THEN Kept(meta, None)
                 ELSE LET i == CHOOSE j \in hits : \A k \in hits : j <= k
                      IN  Kept(meta, Some([id |-> plan_id,
                                           content |-> plans[i].content,
                                           directory |-> plans[i].directory]))

DeleteUnchecked(meta0, plan_id, now) ==
    LET meta == AsList(meta0, now)
        i == FirstPlan(meta.plans.items, plan_id)
    IN  IF i = 0 THEN Kept(meta, FALSE)
        ELSE Saved([meta EXCEPT !.plans.items = Pop(@, i)], TRUE)

\* delete_plan that removes the todos linked to the plan along with it
DeleteWithTodos(meta0, plan_id, now) ==
    LET meta == AsList(meta0, now)
        i == FirstPlan(meta.plans.items, plan_id)
    IN  IF i = 0 THEN Kept(meta, FALSE)
        ELSE Saved([meta EXCEPT !.plans.items = Pop(@, i),
                                !.todos = SelectSeq(@, LAMBDA t : t.related_plan # plan_id)],
                   TRUE)

delete_plan(meta0, plan_id, now) ==
    LET meta == AsList(meta0, now)
        i == FirstPlan(meta.plans.items, plan_id)
        linked_todos == SelectSeq(meta.todos, LAMBDA t : t.related_plan = plan_id)
    IN  IF i = 0 THEN Kept(meta, FALSE)
        ELSE IF linked_todos # <<>>
        THEN Raised(meta, "ValueError",
                    <<"Cannot delete plan ">> \o plan_id \o <<": ">>
                        \o Dec(Len(linked_todos)) \o <<" todos are linked to it">>)
        ELSE Saved([meta EXCEPT !.plans.items = Pop(@, i)], TRUE)

\* the plans as read_all_plans returns them; a conversion is not saved
read_all_plans(meta, now) ==
    IF meta.plans.kind = "list"
    THEN Kept(meta, meta.plans.items)
    ELSE Kept(convert_plans_to_list(meta, now), convert_plans_to_list(meta, now).plans.items)

UpdatePlanSavingAlways(meta0, plan_id, content, title, now) ==
    LET meta == AsList(meta0, now)
        i == FirstPlan(meta.plans.items, plan_id)
    IN  IF i = 0 THEN Saved(meta, FALSE)
        ELSE Saved([meta EXCEPT !.plans.items[i].content = content,
                                !.plans.items[i].title =
                                    IF title # None THEN title[1] ELSE @,
                                !.plans.items[i].updated_at = now], TRUE)

update_plan(meta0, plan_id, content, title, now) ==
    LET meta == AsList(meta0, now)
        i == FirstPlan(meta.plans.items, plan_id)
    IN  IF i = 0 THEN Kept(meta, FALSE)
        ELSE Saved([meta EXCEPT !.plans.items[i].content = content,
                                !.plans.items[i].title =
                                    IF title # None THEN title[1] ELSE @,
                                !.plans.items[i].updated_at = now], TRUE)

\* -------------------------------------------------------------------- docs
create_doc(meta, directory, content) ==
    Saved([meta EXCEPT !.docs = Put(@, directory, content)], TRUE)

update_doc(meta, directory, content) ==
    IF directory \in DOMAIN meta.docs
    THEN Saved([meta EXCEPT !.docs = Put(@, directory, content)], TRUE)
    ELSE Kept(meta, FALSE)

\* ------------------------------------------------------------------- todos
create_todo(meta, content, related_plan, position, now) ==
    LET plans == meta.plans.items
        plan_exists ==
            IF meta.plans.kind = "list"
            THEN \E i \in 1..Len(plans) : plans[i].id = related_plan
            ELSE /\ StartsWith(related_plan, "legacy_")
                 /\ \E i \in 1..Len(plans) :
                        plans[i].directory = Replace(related_plan, "legacy_")
        todo_id == TodoId(Len(meta.todos) + 1)
        todo == [id |-> todo_id, content |-> content, related_plan |-> related_plan,
                 status |-> <<"pending">>, created_at |-> now]
    IN  IF ~plan_exists
        THEN Raised(meta, "ValueError", <<"Plan ID not found: ">> \o related_plan)
        ELSE Saved([meta EXCEPT !.todos = IF position = <<"start">>
                                          THEN Insert0(@, todo) ELSE Append(@, todo)],
                   todo_id)

read_todos(meta, status) ==
    Kept(meta, SelectSeq(meta.todos, LAMBDA t : t.status = status))

FirstTodo(todos, todo_id) ==
    LET hits == {i \in 1..Len(todos) : todos[i].id = todo_id}
    IN  IF hits = {} THEN 0 ELSE CHOOSE i \in hits : \A j \in hits : i <= j

delete_todo(meta, todo_id) ==
    LET i == FirstTodo(meta.todos, todo_id)
    IN  IF i = 0 THEN Kept(meta, FALSE)
        ELSE Saved([meta EXCEPT !.todos = Pop(@, i)], TRUE)

UpdateTodoAlwaysStamp(meta, todo_id, status, git_log, now) ==
    LET i == FirstTodo(meta.todos, todo_id)
        t0 == [meta.todos[i] EXCEPT !.status = status]
        t1 == Put(t0, "completed_at", now)
        t2 == IF git_log # None /\ git_log[1] # <<>>
              THEN Put(t1, "git_log", git_log[1]) ELSE t1
    IN  IF i = 0 THEN Kept(meta, FALSE)
        ELSE Saved([meta EXCEPT !.todos[i] = t2], TRUE)

UpdateTodoMarkingDone(meta, todo_id, status, git_log, now) ==
    LET i == FirstTodo(meta.todos, todo_id)
        t0 == [meta.todos[i] EXCEPT
                  !.status = IF status = <<"completed">> THEN <<"done">> ELSE status]
        t1 == IF status = <<"completed">> THEN Put(t0, "completed_at", now) ELSE t0
    IN  IF i = 0 THEN Kept(meta, FALSE)
        ELSE Saved([meta EXCEPT !.todos[i] = t1], TRUE)

\* todo["completed_at"] = ..., todo["git_log"] = ...: the keys are added to
\* the record of the todo the first time and overwritten afterwards
update_todo(meta, todo_id, status, git_log, now) ==
    LET i == FirstTodo(meta.todos, todo_id)
        t0 == [meta.todos[i] EXCEPT !.status = status]
        t1 == IF status = <<"completed">> THEN Put(t0, "completed_at", now) ELSE t0
        t2 == IF status = <<"completed">> /\ git_log # None /\ git_log[1] # <<>>
              THEN Put(t1, "git_log", git_log[1]) ELSE t1
    IN  IF i = 0 THEN Kept(meta, FALSE)
        ELSE Saved([meta EXCEPT !.todos[i] = t2], TRUE)

MoveWithoutPop(meta, todo_id, position) ==
    LET todo_index == FirstTodo(meta.todos, todo_id)
        todo_item == meta.todos[todo_index]
    IN  IF todo_index = 0 THEN Kept(meta, FALSE)
        ELSE Saved([meta EXCEPT !.todos = IF position = <<"start">>
                                          THEN Insert0(@, todo_item)
                                          ELSE Append(@, todo_item)], TRUE)

move_todo(meta, todo_id, position) ==
    LET todo_index == FirstTodo(meta.todos, todo_id)
        todo_item == meta.todos[todo_index]
        rest == Pop(meta.todos, todo_index)
    IN  IF todo_index = 0 THEN Kept(meta, FALSE)
        ELSE Saved([meta EXCEPT !.todos = IF position = <<"start">>
                                          THEN Insert0(rest, todo_item)
                                          ELSE Append(rest, todo_item)], TRUE)

\* -------------------------------------------------------------- file audit
\* self.project_root = Path.cwd(): the root is the working directory
project_root == <<"/", "proj">>
cwd == project_root

\* Path(file_path).absolute()
absolute(file_path) == IF StartsWith(file_path, "/") THEN file_path ELSE cwd \o file_path

\* abs_path.relative_to(self.project_root).as_posix(); str(abs_path) on ValueError
relative_key(abs_path) ==
    IF /\ Len(abs_path) >= Len(project_root)
       /\ SubSeq(abs_path, 1, Len(project_root)) = project_root
    THEN SubSeq(abs_path, Len(project_root) + 1, Len(abs_path))
    ELSE abs_path

\* the key update_file_status stores under
storage_key(file_path) == relative_key(absolute(file_path))

LookupKeyAbsolute(file_path) == absolute(file_path)
\* the key get_file_status looks up
lookup_key(file_path) == relative_key(absolute(file_path))

TokenCode(t) ==
    CASE t = "x" -> 1 [] t = "y" -> 2 [] t = "#" -> 3 [] t = "AUDIT_SKIP" -> 4
      [] t = "\n" -> 5 [] t = " " -> 6 [] OTHER -> 7
RECURSIVE Digest(_, _)
Digest(data, acc) ==
    IF data = <<>> THEN acc ELSE Digest(Tail(data), 8 * acc + TokenCode(Head(data)))

\* hashlib.sha256 over the bytes: one digest per content, never ""
sha256_hexdigest(data) == <<ToString(Digest(data, 1))>>

\* the file the operating system opens for abs_path: a component followed
\* by ".." names the directory above it (the directories named all exist)
RECURSIVE Collapse(_, _)
Collapse(done, rest) ==
    IF rest = <<>> THEN done
    ELSE IF Head(rest) = ".." /\ Len(done) > 1
    THEN Collapse(SubSeq(done, 1, Len(done) - 1), Tail(rest))
    ELSE IF Head(rest) = ".." /\ done = <<"/">>
    THEN Collapse(done, Tail(rest))
    ELSE Collapse(Append(done, Head(rest)), Tail(rest))

os_path(abs_path) == Collapse(<<>>, abs_path)

HashOfMissingAsEmpty(fl, abs_path) ==
    IF os_path(abs_path) \in DOMAIN fl /\ fl[os_path(abs_path)].exists
    THEN sha256_hexdigest(fl[os_path(abs_path)].data) ELSE sha256_hexdigest(<<>>)

\* _calculate_file_hash: "" when the file does not exist
calculate_file_hash(fl, abs_path) ==
    IF os_path(abs_path) \in DOMAIN fl /\ fl[os_path(abs_path)].exists
    THEN sha256_hexdigest(fl[os_path(abs_path)].data) ELSE <<>>

UpdateFileStatusReplacing(meta, fl, file_path, audited, now) ==
    LET file_hash == calculate_file_hash(fl, absolute(file_path))
    IN  IF audited /\ file_hash = <<>> THEN Kept(meta, FALSE)
        ELSE Saved([meta EXCEPT !.file_status =
                      IF audited
                      THEN Put(<<>>, storage_key(file_path),
                               [audited |-> TRUE, audited_at |-> now,
                                file_hash |-> file_hash])
                      ELSE <<>>], TRUE)

UpdateFileStatusUnchecked(meta, fl, file_path, audited, now) ==
    LET rel_path == storage_key(file_path)
        file_hash == calculate_file_hash(fl, absolute(file_path))
    IN  IF audited
        THEN Saved([meta EXCEPT !.file_status =
                       Put(@, rel_path, [audited |-> TRUE,
                                         audited_at |-> now,
                                         file_hash |-> file_hash])], TRUE)
        ELSE Saved(IF rel_path \in DOMAIN meta.file_status
                   THEN [meta EXCEPT !.file_status = Del(@, rel_path)]
                   ELSE meta, TRUE)

update_file_status(meta, fl, file_path, audited, now) ==
    LET abs_path == absolute(file_path)
        rel_path == storage_key(file_path)
        file_hash == calculate_file_hash(fl, abs_path)
    IN  IF audited
        THEN IF file_hash = <<>> THEN Kept(meta, FALSE)
             ELSE Saved([meta EXCEPT !.file_status =
                            Put(@, rel_path, [audited |-> TRUE,
                                              audited_at |-> now,
                                              file_hash |-> file_hash])], TRUE)
        ELSE Saved(IF rel_path \in DOMAIN meta.file_status
                   THEN [meta EXCEPT !.file_status = Del(@, rel_path)]
                   ELSE meta, TRUE)

\* result = status.copy() with the three keys of a file changed since the audit
Stale(status, current_hash) ==
    [audited |-> FALSE,
     audited_at |-> status.audited_at,
     file_hash |-> status.file_hash,
     modified_after_audit |-> TRUE,
     current_hash |-> current_hash]

GetFileStatusDropping(meta, fl, file_path) ==
    LET rel_path == lookup_key(file_path)
        current_hash == calculate_file_hash(fl, absolute(file_path))
    IN  IF rel_path \notin DOMAIN meta.file_status THEN Kept(meta, None)
        ELSE IF current_hash = <<>>
        THEN Saved([meta EXCEPT !.file_status = Del(@, rel_path)], None)
        ELSE IF current_hash # meta.file_status[rel_path].file_hash
        THEN Kept(meta, Some(Stale(meta.file_status[rel_path], current_hash)))
        ELSE Kept(meta, Some(meta.file_status[rel_path]))

GetFileStatusPersisting(meta, fl, file_path) ==
    LET rel_path == lookup_key(file_path)
        current_hash == calculate_file_hash(fl, absolute(file_path))
    IN  IF rel_path \notin DOMAIN meta.file_status \/ current_hash = <<>>
        THEN Kept(meta, None)
        ELSE IF current_hash # meta.file_status[rel_path].file_hash
        THEN Saved([meta EXCEPT !.file_status[rel_path].audited = FALSE],
                   Some(Stale(meta.file_status[rel_path], current_hash)))
        ELSE Kept(meta, Some(meta.file_status[rel_path]))

get_file_status(meta, fl, file_path) ==
    LET abs_path == absolute(file_path)
        rel_path == lookup_key(file_path)
        current_hash == calculate_file_hash(fl, abs_path)
    IN  IF rel_path \notin DOMAIN meta.file_status THEN Kept(meta, None)
        ELSE IF current_hash = <<>> THEN Kept(meta, None)
        ELSE LET status == meta.file_status[rel_path]
                 stored_hash == status.file_hash
             IN  IF stored_hash # <<>> /\ current_hash # stored_hash
                 THEN Kept(meta, Some(Stale(status, current_hash)))
                 ELSE Kept(meta, Some(status))

\* ------------------------------------------------------------ list of rows
\* the characters of a path component, as code points
Codes(name) ==
    CASE name = "a.py" -> <<97, 46, 112, 121>>
      [] name = "b.py" -> <<98, 46, 112, 121>>
      [] name = "s.py" -> <<115, 46, 112, 121>>
      [] name = "o.py" -> <<111, 46, 112, 121>>
      [] name = "__init__.py" -> <<95, 95, 105, 110, 105, 116, 95, 95, 46, 112, 121>>
      [] name = "notes.md" -> <<110, 111, 116, 101, 115, 46, 109, 100>>
      [] name = "sub" -> <<115, 117, 98>>
      [] name = "etc" -> <<101, 116, 99>>
      [] name = "proj" -> <<112, 114, 111, 106>>
      [] name = ".." -> <<46, 46>>
      [] name = "/" -> <<47>>
      [] OTHER -> <<63>>

\* the string of a key: as_posix() of a relative path, str() of an absolute one
RECURSIVE PosixCodes(_)
PosixCodes(key) ==
    IF key = <<>> THEN <<>>
    ELSE IF Len(key) = 1 THEN Codes(key[1])
    ELSE IF key[1] = "/" THEN Codes("/") \o PosixCodes(Tail(key))
    ELSE Codes(key[1]) \o Codes("/") \o PosixCodes(Tail(key))

\* str.endswith
EndsWith(s, suffix) ==
    /\ Len(s) >= Len(suffix)
    /\ SubSeq(s, Len(s) - Len(suffix) + 1, Len(s)) = suffix

\* s < t for two strings
RECURSIVE StrLess(_, _)
StrLess(s, t) ==
    IF t = <<>> THEN FALSE
    ELSE IF s = <<>> THEN TRUE
    ELSE IF Head(s) # Head(t) THEN Head(s) < Head(t)
    ELSE StrLess(Tail(s), Tail(t))

KeyLess(a, b) == StrLess(PosixCodes(a), PosixCodes(b))

RECURSIVE SortDescending(_)
SortDescending(S) ==
    IF S = {} THEN <<>>
    ELSE LET first == CHOOSE a \in S : \A b \in S \ {a} : KeyLess(b, a)
         IN  <<first>> \o SortDescending(S \ {first})

\* all_files.sort()
RECURSIVE sort(_)
sort(S) ==
    IF S = {} THEN <<>>
    ELSE LET first == CHOOSE a \in S : \A b \in S \ {a} : KeyLess(a, b)
         IN  <<first>> \o sort(S \ {first})

\* the directories of the project, which stay when their files go
Dirs == {project_root, project_root \o <<"sub">>}

IsUnder(path, dir) == Len(path) > Len(dir) /\ SubSeq(path, 1, Len(dir)) = dir

\* f.readline().strip(): the tokens before the first line break, without the
\* blanks around them
RECURSIVE FirstLine(_)
FirstLine(data) ==
    IF data = <<>> \/ Head(data) = "\n" THEN <<>>
    ELSE <<Head(data)>> \o FirstLine(Tail(data))

RECURSIVE LStrip(_)
LStrip(line) ==
    IF line # <<>> /\ Head(line) = " " THEN LStrip(Tail(line)) ELSE line

\* the characters of ".py"
DotPy == <<46, 112, 121>>

\* abs_path.exists() and abs_path.suffix == '.py' and the first line, stripped,
\* starts with '#' and contains 'AUDIT_SKIP'
has_skip_marker(fl, abs_path) ==
    /\ os_path(abs_path) \in DOMAIN fl
    /\ fl[os_path(abs_path)].exists
    /\ EndsWith(Codes(abs_path[Len(abs_path)]), DotPy)
    /\ LET first_line == LStrip(FirstLine(fl[os_path(abs_path)].data))
       IN  /\ first_line # <<>>
           /\ Head(first_line) = "#"
           /\ \E i \in 1..Len(first_line) : first_line[i] = "AUDIT_SKIP"

\* self.project_root / path
under_root(path) == IF StartsWith(path, "/") THEN path ELSE project_root \o path

RowWithoutMarker(meta, fl, key) ==
    LET abs_path == under_root(key)
        current_hash == calculate_file_hash(fl, abs_path)
    IN  IF key \in DOMAIN meta.file_status
        THEN IF current_hash = <<>> THEN "Not Found"
             ELSE IF "file_hash" \notin DOMAIN meta.file_status[key]
             THEN "Audited (no hash)"
             ELSE IF meta.file_status[key].file_hash = <<>>
             THEN "Audited (no hash)"
             ELSE IF current_hash # meta.file_status[key].file_hash
             THEN "Modified"
             ELSE "Audited"
        ELSE "Not Audited"

\* the status column of the row of key; "Manually passed" stands for the
\* label of a file with the skip marker
row_status(meta, fl, key) ==
    LET abs_path == under_root(key)
        current_hash == calculate_file_hash(fl, abs_path)
    IN  IF key \in DOMAIN meta.file_status
        THEN IF current_hash = <<>> THEN "Not Found"
             ELSE IF has_skip_marker(fl, abs_path) THEN "Manually passed"
             ELSE IF "file_hash" \notin DOMAIN meta.file_status[key]
             THEN "Audited (no hash)"
             ELSE IF meta.file_status[key].file_hash = <<>>
             THEN "Audited (no hash)"
             ELSE IF current_hash # meta.file_status[key].file_hash
             THEN "Modified"
             ELSE "Audited"
        ELSE IF has_skip_marker(fl, abs_path) THEN "Manually passed"
        ELSE "Not Audited"

Text(t) == [kind |-> "text", text |-> t, rows |-> <<>>]
Table(rows) == [kind |-> "table", text |-> <<>>, rows |-> rows]

\* [f for f in file_statuses.keys() if f.endswith('.py') and not
\* f.endswith('__init__.py')]
tracked_files(meta) ==
    {k \in DOMAIN meta.file_status :
        /\ EndsWith(PosixCodes(k), DotPy)
        /\ ~EndsWith(PosixCodes(k), Codes("__init__.py"))}

\* search_path.rglob("*.py"), files other than __init__.py, under the root
found_files(fl, search_path) ==
    {relative_key(f) : f \in {g \in DOMAIN fl :
        /\ fl[g].exists
        /\ IsUnder(g, search_path)
        /\ EndsWith(Codes(g[Len(g)]), DotPy)
        /\ g[Len(g)] # "__init__.py"
        /\ IsUnder(g, project_root)}}

list_file_status(meta, fl, directory) ==
    LET given == directory # None /\ directory[1] # <<>>
        search_path == under_root(directory[1])
        all_files == IF given THEN found_files(fl, search_path) ELSE tracked_files(meta)
        sorted == sort(all_files)
    IN  IF given /\ search_path \notin Dirs
        THEN Kept(meta, Text(<<"Directory not found: ">> \o directory[1]))
        ELSE IF all_files = {}
        THEN Kept(meta, Text(<<"No Python files found">>))
        ELSE Kept(meta, Table([i \in 1..Len(sorted) |->
                                 [file |-> sorted[i],
                                  status |-> row_status(meta, fl, sorted[i])]]))

\* ---------------------------------------------------------- list variables
create_list_variable(meta, name, items, now) ==
    Saved([meta EXCEPT !.list_variables =
              Put(@, name, [items |-> items, created_at |-> now, updated_at |-> now])],
          TRUE)

\* json null, which items holds once update_list_variable was given None:
\* a value that no list of items equals (no item is the token null)
JsonNull == <<"null">>

read_list_variable(meta, name) ==
    Kept(meta, IF name \in DOMAIN meta.list_variables
               THEN Some(meta.list_variables[name]) ELSE None)

\* items: None or Some(list); the method stores what it is given
update_list_variable(meta, name, items, now) ==
    IF name \in DOMAIN meta.list_variables
    THEN Saved([meta EXCEPT
                  !.list_variables[name].items = IF items = None THEN JsonNull ELSE items[1],
                  !.list_variables[name].updated_at = now], TRUE)
    ELSE Kept(meta, FALSE)

AppendKeepingStamp(meta, name, item, now) ==
    IF name \in DOMAIN meta.list_variables
    THEN Saved([meta EXCEPT !.list_variables[name].items = Append(@, item)], TRUE)
    ELSE Kept(meta, FALSE)

AppendCreating(meta, name, item, now) ==
    IF name \in DOMAIN meta.list_variables /\ meta.list_variables[name].items # JsonNull
    THEN Saved([meta EXCEPT !.list_variables[name].items = Append(@, item),
                            !.list_variables[name].updated_at = now], TRUE)
    ELSE Saved([meta EXCEPT !.list_variables =
                   Put(@, name, [items |-> <<item>>, created_at |-> now,
                                 updated_at |-> now])], TRUE)

\* None has no append: AttributeError
append_to_list_variable(meta, name, item, now) ==
    IF name \in DOMAIN meta.list_variables
    THEN IF meta.list_variables[name].items = JsonNull
         THEN Raised(meta, "AttributeError", <<"'NoneType' object has no attribute 'append'">>)
         ELSE Saved([meta EXCEPT !.list_variables[name].items = Append(@, item),
                                 !.list_variables[name].updated_at = now], TRUE)
    ELSE Kept(meta, FALSE)

RemoveEvery(s, x) == SelectSeq(s, LAMBDA y : y # x)

\* list.remove(x): the list without its first element equal to x
RECURSIVE RemoveFirst(_, _)
RemoveFirst(s, x) ==
    IF s = <<>> THEN <<>>
    ELSE IF Head(s) = x THEN Tail(s)
    ELSE <<Head(s)>> \o RemoveFirst(Tail(s), x)

IsIn(x, s) == \E i \in 1..Len(s) : s[i] = x

remove_from_list_variable(meta, name, item, now) ==
    IF name \in DOMAIN meta.list_variables
    THEN IF meta.list_variables[name].items = JsonNull
         THEN Raised(meta, "TypeError", <<"argument of type 'NoneType' is not iterable">>)
         ELSE IF IsIn(item, meta.list_variables[name].items)
         THEN Saved([meta EXCEPT !.list_variables[name].items = RemoveFirst(@, item),
                                 !.list_variables[name].updated_at = now], TRUE)
         ELSE Kept(meta, FALSE)
    ELSE Kept(meta, FALSE)

delete_list_variable(meta, name) ==
    IF name \in DOMAIN meta.list_variables
    THEN Saved([meta EXCEPT !.list_variables = Del(@, name)], TRUE)
    ELSE Kept(meta, FALSE)

\* --------------------------------------------- one whole call, caller alone
\* meta = self._load_meta(); <body>; self._save_meta(meta); return
Run(f, Body(_)) ==
    LET L == load_meta(f)
    IN  IF L.exc # None THEN [fs |-> L.fs, ret |-> None, exc |-> L.exc]
        ELSE LET b == Body(L.meta)
             IN  [fs |-> IF b.save THEN save_meta(L.fs, b.meta) ELSE L.fs,
                  ret |-> b.ret, exc |-> b.exc]

\* the document at the real path, when it parses
Stored(f) == json_load(f[MetaPath].data)
StoredPlans(f) == IF Readable(f) THEN Stored(f).plans.items ELSE <<>>
StoredTodos(f) == IF Readable(f) THEN Stored(f).todos ELSE <<>>

\* ------------------------------------------------------------------ inputs
Contents == {<<"c1">>}
Titles == {None}
Directories == {<<"src">>}
PlanIdArgs == {PlanId(n) : n \in 1..(MaxPlans + 1)} \cup {LegacyId(d) : d \in Directories}
TodoIdArgs == {TodoId(n) : n \in 1..(MaxTodos + 1)}
Positions == {<<"end">>}
Statuses == {<<"pending">>, <<"completed">>}

\* a project_meta.json written by the earlier, mapping-shaped schema
LegacyMeta ==
    [default_meta EXCEPT !.plans.items = <<[directory |-> <<"src">>, content |-> <<"c1">>]>>]

\* file_path arguments: two spellings of one file, and another file
FilePaths == {<<"a.py">>, <<"/", "proj", "a.py">>, <<"b.py">>}
AllFiles == {absolute(p) : p \in FilePaths}
FileContents == {<<"x">>, <<"x", "y">>, <<"y">>}

Procs == {1, 2}
\* a caller that is inside no operation
Idle ==
    [pc |-> "idle", op |-> "none", args |-> <<>>, meta |-> default_meta,
     ret |-> None, exc |-> None, fd |-> "closed", off |-> 0, cont |-> "none"]

\* ----------------------------------------------------------------- history
\* createdIds: the ids create_plan returned since the store last held no plan
\* and with no plan deleted since (cleanStart).
\* listSeen: the stored document has held list-shaped plans, now or earlier.
HistPlans(h0, f, op, r) ==
    LET h == [h0 EXCEPT !.listSeen = @ \/ (Readable(f) /\ Stored(f).plans.kind = "list")]
    IN  IF Readable(f) /\ Stored(f).plans.items = <<>>
        THEN [h EXCEPT !.createdIds = <<>>, !.cleanStart = TRUE]
        ELSE IF op = "create_plan" /\ r.exc = None /\ h.cleanStart
        THEN [h EXCEPT !.createdIds = Append(@, r.ret)]
        ELSE IF (op = "delete_plan" /\ r.exc = None /\ r.ret = TRUE) \/ op = "remove_meta_file"
        THEN [h EXCEPT !.createdIds = <<>>, !.cleanStart = FALSE]
        ELSE h

\* dispatch: whether the last handle_call_tool ran a handler, and the answer
\* the handler registered for its name gives to its arguments (<<>> if none).
\* before: the document stored before the last mutating call, None if the
\* file did not parse then.
\* itemsBefore: the items the variable named in the last
\* remove_from_list_variable held before that call, None if there was none.
\* lastMark[f]: the content file f had when update_file_status last marked it
\* audited, and the file_path it was given; None once its audit was cleared.
\* staleSeen[f]: get_file_status has reported f modified after its audit since
\* update_file_status last succeeded on f.
HistAudit(h, fl, op, args, r) ==
    IF op = "update_file_status" /\ r.exc = None /\ r.ret = TRUE
    THEN [h EXCEPT !.lastMark[absolute(args[1])] =
            IF args[2]
            THEN Some([data |-> fl[absolute(args[1])].data, path |-> args[1]])
            ELSE None,
                   !.staleSeen[absolute(args[1])] = FALSE]
    ELSE IF /\ op = "get_file_status"
            /\ r.exc = None
            /\ r.ret # None
            /\ "modified_after_audit" \in DOMAIN r.ret[1]
    THEN [h EXCEPT !.staleSeen[absolute(args[1])] = TRUE]
    ELSE h

Hist0(f) ==
    [createdIds |-> <<>>,
     cleanStart |-> (Readable(f) /\ Stored(f).plans.items = <<>>),
     lastMark |-> [x \in AllFiles |-> None],
     staleSeen |-> [x \in AllFiles |-> FALSE],
     hadRecord |-> FALSE,
     prevCompleted |-> None,
     itemsBefore |-> None,
     todoIds |-> <<>>,
     todoClean |-> (Readable(f) /\ Stored(f).todos = <<>>),
     listSeen |-> (Readable(f) /\ Stored(f).plans.kind = "list"),
     dispatch |-> [called |-> FALSE, expected |-> <<>>],
     before |-> None,
     bothLoaded |-> FALSE,
     lastSaver |-> 0,
     calls |-> [p \in Procs |-> 0]]

\* a whole call by a caller that is alone: the files, the result, the history
Call(op, args, r) ==
    /\ fs' = r.fs
    /\ last' = [op |-> op, args |-> args, ret |-> r.ret, exc |-> r.exc]
    /\ hist' = HistPlans(hist, r.fs, op, r)
    /\ UNCHANGED <<files, clock, procs>>

\* ------------------------------------------------------- plans and todos
CreatePlan ==
    \E content \in Contents, title \in Titles :
        /\ Len(StoredPlans(fs)) < MaxPlans
        /\ Call("create_plan", <<content, title>>,
                Run(fs, LAMBDA m : create_plan(m, content, title, clock)))

ReadPlan ==
    \E plan_id \in PlanIdArgs :
        Call("read_plan", <<plan_id>>, Run(fs, LAMBDA m : read_plan(m, plan_id)))

DeletePlan ==
    \E plan_id \in PlanIdArgs :
        Call("delete_plan", <<plan_id>>,
             Run(fs, LAMBDA m : delete_plan(m, plan_id, clock)))

CreateTodo ==
    \E content \in Contents, related_plan \in PlanIdArgs, position \in Positions :
        /\ Len(StoredTodos(fs)) < MaxTodos
        /\ Call("create_todo", <<content, related_plan, position>>,
                Run(fs, LAMBDA m : create_todo(m, content, related_plan, position, clock)))

ReadTodos ==
    \E status \in Statuses :
        Call("read_todos", <<status>>, Run(fs, LAMBDA m : read_todos(m, status)))

DeleteTodo ==
    \E todo_id \in TodoIdArgs :
        Call("delete_todo", <<todo_id>>, Run(fs, LAMBDA m : delete_todo(m, todo_id)))

\* the user removes project_meta.json
RemoveMetaFile ==
    /\ fs[MetaPath].exists
    /\ fs' = [fs EXCEPT ![MetaPath] = NoFile]
    /\ last' = [op |-> "remove_meta_file", args |-> <<>>, ret |-> None, exc |-> None]
    /\ hist' = HistPlans(hist, fs', "remove_meta_file", last')
    /\ UNCHANGED <<files, clock, procs>>

Tick ==
    /\ clock < MaxClock
    /\ clock' = clock + 1
    /\ last' = [op |-> "tick", args |-> <<>>, ret |-> None, exc |-> None]
    /\ UNCHANGED <<fs, files, procs, hist>>

\* ProjectManager() on a project root that holds no project_meta.json, one
\* written by this schema or the legacy one, or a file that is not JSON
InitialFs ==
    {[meta_file |-> File(json_dump(default_meta)), temp_file |-> NoFile],
     [meta_file |-> File(json_dump(LegacyMeta)), temp_file |-> NoFile],
     [meta_file |-> File(<<>>), temp_file |-> NoFile]}

Init ==
    /\ fs \in InitialFs
    /\ files = [f \in AllFiles |-> File(<<"x">>)]
    /\ clock = 0
    /\ procs = [p \in Procs |-> Idle]
    /\ last = [op |-> "init", args |-> <<>>, ret |-> None, exc |-> None]
    /\ hist = Hist0(fs)

Next ==
    \/ CreatePlan
    \/ ReadPlan
    \/ DeletePlan
    \/ CreateTodo
    \/ ReadTodos
    \/ DeleteTodo
    \/ RemoveMetaFile

Spec == Init /\ [][Next]_vars

\* ------------------------------------------------------------ properties
StoreOps ==
    {"create_plan", "read_plan", "delete_plan",
     "create_todo", "read_todos", "delete_todo"}

\* sub occurs in s as a run of consecutive tokens
Contains(s, sub) ==
    \E i \in 0..(Len(s) - Len(sub)) : SubSeq(s, i + 1, i + Len(sub)) = sub

DigitVal(ch) == CHOOSE d \in 0..9 : DigitChar[d + 1] = ch
\* a < b as strings of equal length whose tokens after the first are digits
IdLess(a, b) ==
    /\ Len(a) = Len(b)
    /\ \E i \in 2..Len(a) :
        /\ DigitVal(a[i]) < DigitVal(b[i])
        /\ \A j \in 2..(i - 1) : a[j] = b[j]

\* C4: an operation that finds project_meta.json absent or not parsing does
\* not raise; its load recreates the file with the default document and works
\* on that default, so a read_todos leaves exactly the default behind and
\* returns no todo.
C4_LoadRecreatesDefault ==
    [][(last'.op \in StoreOps /\ ~Readable(fs))
        => /\ last'.exc = None \/ last'.exc[1].type # "JSONDecodeError"
           /\ Readable(fs')
           /\ last'.op = "read_todos"
                => /\ fs'[MetaPath] = File(json_dump(default_meta))
                   /\ last'.ret = <<>>]_vars

\* C5: from a store without plans and with no plan deleted since, the k-th
\* create_plan returns "plan_" followed by k zero-padded to three digits; the
\* ids returned are pairwise distinct and strictly increasing.
C5_CreateSequenceIds ==
    hist.cleanStart =>
        /\ \A k \in 1..Len(hist.createdIds) :
              /\ hist.createdIds[k] = PlanId(k)
              /\ k <= 9 => hist.createdIds[k] = <<"plan_", "0", "0", DigitChar[k + 1]>>
        /\ \A j, k \in 1..Len(hist.createdIds) :
              j < k => /\ hist.createdIds[j] # hist.createdIds[k]
                       /\ IdLess(hist.createdIds[j], hist.createdIds[k])

C5_Witness ==
    /\ hist.cleanStart
    /\ last.op = "create_plan"
    /\ Len(hist.createdIds) >= 2
    /\ last.ret = hist.createdIds[Len(hist.createdIds)]

\* C6: no two plan records of the stored document have the same id.
C6_PlanIdsUnique ==
    Readable(fs) =>
        \A i, j \in 1..Len(StoredPlans(fs)) :
            i # j => StoredPlans(fs)[i].id # StoredPlans(fs)[j].id

\* the ids the plans of a stored document answer to, in either shape
PlanIdsOf(meta) ==
    IF meta.plans.kind = "list"
    THEN {meta.plans.items[i].id : i \in 1..Len(meta.plans.items)}
    ELSE {LegacyId(meta.plans.items[i].directory) : i \in 1..Len(meta.plans.items)}

Referencing(meta, plan_id) ==
    Cardinality({i \in 1..Len(meta.todos) : meta.todos[i].related_plan = plan_id})

\* C7: delete_plan of an existing plan that n >= 1 todos reference raises a
\* ValueError whose message carries n, and leaves both files of the store as
\* they were.
C7_DeleteLinkedPlanFails ==
    [][(/\ last'.op = "delete_plan"
        /\ Readable(fs)
        /\ last'.args[1] \in PlanIdsOf(Stored(fs))
        /\ Referencing(Stored(fs), last'.args[1]) >= 1)
        => /\ last'.exc # None
           /\ last'.exc[1].type = "ValueError"
           /\ Contains(last'.exc[1].msg,
                       <<": ">> \o Dec(Referencing(Stored(fs), last'.args[1]))
                            \o <<" todos are linked to it">>)
           /\ fs' = fs]_vars

C7_Witness ==
    /\ last.op = "delete_plan"
    /\ last.exc # None
    /\ last.exc[1].type = "ValueError"
    /\ Readable(fs)
    /\ Referencing(Stored(fs), last.args[1]) = 2
    /\ Len(StoredPlans(fs)) = 2

\* ------------------------------------------------------------- file audit
AuditCall(op, args, r) ==
    /\ fs' = r.fs
    /\ last' = [op |-> op, args |-> args, ret |-> r.ret, exc |-> r.exc]
    /\ hist' = [HistAudit(hist, files, op, args, r) EXCEPT !.hadRecord =
                    /\ Readable(fs)
                    /\ lookup_key(args[1]) \in DOMAIN Stored(fs).file_status]
    /\ UNCHANGED <<files, clock, procs>>

UpdateFileStatus ==
    \E file_path \in FilePaths, audited \in BOOLEAN :
        AuditCall("update_file_status", <<file_path, audited>>,
                  Run(fs, LAMBDA m : update_file_status(m, files, file_path, audited, clock)))

GetFileStatus ==
    \E file_path \in FilePaths :
        AuditCall("get_file_status", <<file_path>>,
                  Run(fs, LAMBDA m : get_file_status(m, files, file_path)))

\* somebody edits a source file
WriteFile ==
    \E f \in AllFiles, data \in FileContents :
        /\ files[f] # File(data)
        /\ files' = [files EXCEPT ![f] = File(data)]
        /\ last' = [op |-> "write_file", args |-> <<f, data>>, ret |-> None, exc |-> None]
        /\ UNCHANGED <<fs, clock, procs, hist>>

\* somebody deletes a source file
RemoveFile ==
    \E f \in AllFiles :
        /\ files[f].exists
        /\ files' = [files EXCEPT ![f] = NoFile]
        /\ last' = [op |-> "remove_file", args |-> <<f>>, ret |-> None, exc |-> None]
        /\ UNCHANGED <<fs, clock, procs, hist>>

InitAudit ==
    /\ fs = [meta_file |-> File(json_dump(default_meta)), temp_file |-> NoFile]
    /\ files = [f \in AllFiles |-> File(<<"x">>)]
    /\ clock = 0
    /\ procs = [p \in Procs |-> Idle]
    /\ last = [op |-> "init", args |-> <<>>, ret |-> None, exc |-> None]
    /\ hist = Hist0(fs)

NextAudit ==
    \/ UpdateFileStatus
    \/ GetFileStatus
    \/ WriteFile
    \/ RemoveFile
    \/ Tick

SpecAudit == InitAudit /\ [][NextAudit]_vars

\* file f was marked audited under file_path, not cleared since, and holds now
\* the content it had then (Unchanged) or another content (Changed)
MarkedAs(f, file_path) ==
    /\ hist.lastMark[f] # None
    /\ hist.lastMark[f][1].path = file_path
Unchanged(f) == files[f].exists /\ files[f].data = hist.lastMark[f][1].data
Changed(f) == files[f].exists /\ files[f].data # hist.lastMark[f][1].data

\* C8: get_file_status(f) of an existing file that update_file_status(f) marked
\* audited and that has the content it had then returns a record with
\* audited = true and without modified_after_audit.
C8_MarkThenStatusAudited ==
    (/\ last.op = "get_file_status"
     /\ MarkedAs(absolute(last.args[1]), last.args[1])
     /\ Unchanged(absolute(last.args[1])))
        => /\ last.exc = None
           /\ last.ret # None
           /\ last.ret[1].audited = TRUE
           /\ "modified_after_audit" \notin DOMAIN last.ret[1]

C8_Witness ==
    /\ last.op = "get_file_status"
    /\ MarkedAs(absolute(last.args[1]), last.args[1])
    /\ Unchanged(absolute(last.args[1]))
    /\ last.ret # None
    /\ last.ret[1].file_hash = sha256_hexdigest(<<"x", "y">>)

\* C9: get_file_status(f) of a file marked audited whose content has changed
\* since returns audited = false, modified_after_audit = true and the hash of
\* the present content as current_hash, and leaves the stored document, the
\* record of f in it included, as it was.
C9_StaleStatusLeavesRecord ==
    [][(/\ last'.op = "get_file_status"
        /\ MarkedAs(absolute(last'.args[1]), last'.args[1])
        /\ Changed(absolute(last'.args[1])))
        => /\ last'.exc = None
           /\ last'.ret # None
           /\ last'.ret[1].audited = FALSE
           /\ "modified_after_audit" \in DOMAIN last'.ret[1]
           /\ last'.ret[1].modified_after_audit = TRUE
           /\ last'.ret[1].current_hash =
                sha256_hexdigest(files[absolute(last'.args[1])].data)
           /\ last'.ret[1].current_hash # last'.ret[1].file_hash
           /\ fs' = fs
           /\ LET rec == Stored(fs').file_status[lookup_key(last'.args[1])]
              IN  /\ rec.audited = TRUE
                  /\ rec.file_hash =
                        sha256_hexdigest(hist.lastMark[absolute(last'.args[1])][1].data)]_vars

C9_Witness ==
    /\ last.op = "get_file_status"
    /\ MarkedAs(absolute(last.args[1]), last.args[1])
    /\ Changed(absolute(last.args[1]))
    /\ last.ret # None
    /\ last.ret[1].audited = FALSE
    /\ Stored(fs).file_status[lookup_key(last.args[1])].audited = TRUE

\* what get_file_status(file_path) returns in the present state
StatusNow(file_path) == Run(fs, LAMBDA m : get_file_status(m, files, file_path)).ret

\* C10: of two files marked audited with identical content, one changed since
\* and the other not, get_file_status reports the changed one stale
\* (audited = false, modified_after_audit) and the other audited = true.
C10_AuditPerFile ==
    \A p, q \in FilePaths :
        (/\ absolute(p) # absolute(q)
         /\ MarkedAs(absolute(p), p)
         /\ MarkedAs(absolute(q), q)
         /\ hist.lastMark[absolute(p)][1].data = hist.lastMark[absolute(q)][1].data
         /\ Changed(absolute(p))
         /\ Unchanged(absolute(q)))
            => /\ StatusNow(p) # None
               /\ StatusNow(p)[1].audited = FALSE
               /\ "modified_after_audit" \in DOMAIN StatusNow(p)[1]
               /\ StatusNow(q) # None
               /\ StatusNow(q)[1].audited = TRUE
               /\ "modified_after_audit" \notin DOMAIN StatusNow(q)[1]

C10_Witness ==
    /\ last.op = "get_file_status"
    /\ last.ret # None
    /\ last.ret[1].audited = TRUE
    /\ \E p \in FilePaths :
        /\ absolute(p) # absolute(last.args[1])
        /\ MarkedAs(absolute(p), p)
        /\ MarkedAs(absolute(last.args[1]), last.args[1])
        /\ hist.lastMark[absolute(p)][1].data
             = hist.lastMark[absolute(last.args[1])][1].data
        /\ Changed(absolute(p))
        /\ Unchanged(absolute(last.args[1]))

\* ------------------------------------------- todos and the plans they name
\* a document of the present schema with the plan plan_001
ListPlanMeta == create_plan(default_meta, <<"c1">>, None, 0).meta
\* a document of the legacy schema whose directory name begins with legacy_
LegacyNamedMeta ==
    [default_meta EXCEPT
        !.plans.items = <<[directory |-> <<"legacy_", "old">>, content |-> <<"c1">>]>>]

RelatedPlanArgs ==
    {PlanId(1), PlanId(2), LegacyId(<<"src">>), <<"legacy_">> \o LegacyId(<<"src">>),
     LegacyId(<<"legacy_", "old">>)}
AllPositions == {<<"start">>, <<"end">>}
GitLogs == {None, Some(<<>>), Some(<<"g1">>), Some(<<"g2">>)}

CreateTodoAt(related_plans) ==
    \E content \in Contents, related_plan \in related_plans, position \in AllPositions :
        /\ Len(StoredTodos(fs)) < MaxTodos
        /\ Call("create_todo", <<content, related_plan, position>>,
                Run(fs, LAMBDA m : create_todo(m, content, related_plan, position, clock)))

\* an optional key of a dict
Field(d, k) == IF k \in DOMAIN d THEN Some(d[k]) ELSE None

\* prevCompleted: the completed_at the todo had before the update_todo
UpdateTodo(git_logs) ==
    \E todo_id \in TodoIdArgs, status \in Statuses, git_log \in git_logs :
        LET r == Run(fs, LAMBDA m : update_todo(m, todo_id, status, git_log, clock))
            i == FirstTodo(StoredTodos(fs), todo_id)
        IN  /\ fs' = r.fs
            /\ last' = [op |-> "update_todo", args |-> <<todo_id, status, git_log>>,
                        ret |-> r.ret, exc |-> r.exc]
            /\ hist' = [hist EXCEPT !.prevCompleted =
                            IF i = 0 THEN None
                            ELSE Field(StoredTodos(fs)[i], "completed_at")]
            /\ UNCHANGED <<files, clock, procs>>

MoveTodo ==
    \E todo_id \in TodoIdArgs, position \in AllPositions :
        Call("move_todo", <<todo_id, position>>,
             Run(fs, LAMBDA m : move_todo(m, todo_id, position)))

StoreInit(stores) ==
    /\ fs \in {[meta_file |-> File(json_dump(m)), temp_file |-> NoFile] : m \in stores}
    /\ files = [f \in AllFiles |-> File(<<"x">>)]
    /\ clock = 0
    /\ procs = [p \in Procs |-> Idle]
    /\ last = [op |-> "init", args |-> <<>>, ret |-> None, exc |-> None]
    /\ hist = Hist0(fs)

\* create_todo against a store of either schema
InitLink == StoreInit({ListPlanMeta, LegacyMeta, LegacyNamedMeta})

NextLink ==
    \/ CreateTodoAt(RelatedPlanArgs)
    \/ DeleteTodo

SpecLink == InitLink /\ [][NextLink]_vars

\* plan_id names a plan of the document: read_plan finds it
Resolves(meta, plan_id) == read_plan(meta, plan_id).ret # None

\* C14: create_todo raises the ValueError "Plan ID not found" and leaves the
\* store as it was when related_plan names no plan of the document, and
\* returns the id of a todo it has added when related_plan names one, in the
\* list schema and in the legacy one.
C14_CreateTodoNeedsPlan ==
    [][last'.op = "create_todo"
        => IF Resolves(Stored(fs), last'.args[2])
           THEN /\ last'.exc = None
                /\ Len(StoredTodos(fs')) = Len(StoredTodos(fs)) + 1
           ELSE /\ last'.exc # None
                /\ last'.exc[1].type = "ValueError"
                /\ Contains(last'.exc[1].msg, <<"Plan ID not found: ">>)
                /\ fs' = fs]_vars

\* the todo operations on a store of the present schema with one plan
InitTodos == StoreInit({ListPlanMeta})

NextTodos ==
    \/ CreateTodoAt({PlanId(1)})
    \/ ReadTodos
    \/ UpdateTodo({None})
    \/ MoveTodo
    \/ DeleteTodo

SpecTodos == InitTodos /\ [][NextTodos]_vars

\* the k-th smallest member of a set of indices
Kth(P, k) == CHOOSE i \in P : Cardinality({j \in P : j < i}) = k - 1
\* sel holds the todos of the given status, in the order they have in todos
InStoredOrder(sel, todos, status) ==
    LET P == {i \in 1..Len(todos) : todos[i].status = status}
    IN  /\ Len(sel) = Cardinality(P)
        /\ \A k \in 1..Len(sel) : sel[k] = todos[Kth(P, k)]

\* C15: a create_todo that succeeds with position "start" puts the new todo
\* before the stored todos, with any other position after them, and leaves
\* the stored todos in the order they had; read_todos returns the todos of
\* the status asked for in their stored order.
C15_CreateAtStartOrEnd ==
    [][/\ (last'.op = "create_todo" /\ last'.exc = None)
            => LET old == StoredTodos(fs)
                   new == StoredTodos(fs')
               IN  /\ Len(new) = Len(old) + 1
                   /\ IF last'.args[3] = <<"start">>
                      THEN /\ new[1].id = last'.ret
                           /\ SubSeq(new, 2, Len(new)) = old
                      ELSE /\ new[Len(new)].id = last'.ret
                           /\ SubSeq(new, 1, Len(old)) = old
       /\ last'.op = "read_todos"
            => InStoredOrder(last'.ret, StoredTodos(fs), last'.args[1])]_vars

\* a second todo created at the start stands before todo_001
C15_Witness ==
    /\ last.op = "create_todo"
    /\ last.args[3] = <<"start">>
    /\ last.ret = TodoId(2)
    /\ Len(StoredTodos(fs)) = 2
    /\ StoredTodos(fs)[1].id = TodoId(2)
    /\ StoredTodos(fs)[2].id = TodoId(1)

\* read_todos("pending") returning it before todo_001
C15_WitnessRead ==
    /\ last.op = "read_todos"
    /\ last.args[1] = <<"pending">>
    /\ Len(last.ret) = 2
    /\ last.ret[1].id = TodoId(2)
    /\ last.ret[2].id = TodoId(1)

StatusMeta ==
    LET one == create_todo(ListPlanMeta, <<"c1">>, PlanId(1), <<"end">>, 0).meta
    IN  create_todo(one, <<"c1">>, PlanId(1), <<"end">>, 0).meta

InitStatus == StoreInit({StatusMeta})

NextStatus ==
    \/ UpdateTodo(GitLogs)
    \/ Tick

SpecStatus == InitStatus /\ [][NextStatus]_vars

\* a git_log was supplied: given and not the empty string
Supplied(git_log) == git_log # None /\ git_log[1] # <<>>

\* what an update_todo step that found its todo did to that todo, given
\* whether the step counts as one that completes it: it sets completed_at to
\* the time of the call and git_log to the one supplied, if any, when it
\* does, leaves both as they were when it does not, and leaves every other
\* todo and the rest of the document as it was
UpdateSets(completes, f, g, args, now) ==
    LET i == FirstTodo(StoredTodos(f), args[1])
        old == StoredTodos(f)[i]
        new == StoredTodos(g)[i]
    IN  /\ Len(StoredTodos(g)) = Len(StoredTodos(f))
        /\ new.status = args[2]
        /\ IF completes
           THEN /\ Field(new, "completed_at") = Some(now)
                /\ Field(new, "git_log") =
                      IF Supplied(args[3]) THEN args[3] ELSE Field(old, "git_log")
           ELSE /\ Field(new, "completed_at") = Field(old, "completed_at")
                /\ Field(new, "git_log") = Field(old, "git_log")
        /\ \A j \in 1..Len(StoredTodos(f)) : j # i => StoredTodos(g)[j] = StoredTodos(f)[j]
        /\ Stored(g) = [Stored(f) EXCEPT !.todos = StoredTodos(g)]

\* C17 as stated: update_todo sets completed_at, and git_log when one is
\* supplied, only when the todo goes from another status to "completed";
\* every other update of the status leaves completed_at and git_log as they
\* were.
C17_OnlyOnTransition ==
    [][(last'.op = "update_todo" /\ last'.ret = TRUE)
        => LET i == FirstTodo(StoredTodos(fs), last'.args[1])
           IN  UpdateSets(/\ last'.args[2] = <<"completed">>
                          /\ StoredTodos(fs)[i].status # <<"completed">>,
                          fs, fs', last'.args, clock)]_vars

\* C17 as amended: update_todo sets completed_at, and git_log when one is
\* supplied, whenever the new status is "completed", also when the todo was
\* completed already; an update to any other status leaves completed_at and
\* git_log as they were.
C17_WheneverCompleted ==
    [][(last'.op = "update_todo" /\ last'.ret = TRUE)
        => UpdateSets(last'.args[2] = <<"completed">>, fs, fs', last'.args, clock)]_vars

\* a completed todo completed again later, with another git_log
C17_Witness ==
    /\ last.op = "update_todo"
    /\ last.args = <<TodoId(1), <<"completed">>, Some(<<"g2">>)>>
    /\ last.ret = TRUE
    /\ hist.prevCompleted = Some(0)
    /\ Field(StoredTodos(fs)[1], "completed_at") = Some(1)
    /\ Field(StoredTodos(fs)[1], "git_log") = Some(<<"g2">>)
    /\ Field(StoredTodos(fs)[2], "completed_at") = None

\* ------------------------------------------------------- list variables
\* the parameters, after self, of the two methods the handlers call with
\* three positional arguments
create_list_variable_params == <<"name", "items">>
update_list_variable_params == <<"name", "items">>

\* pm.method(*args) with more positional arguments than parameters raises
\* TypeError before the method runs; the handlers catch every Exception and
\* answer with its text
TakesArgs(params, args) == Len(args) <= Len(params)

Answer(f, text) == [fs |-> f, ret |-> text, exc |-> None]

handle_create_list_variable(f, name, items, need_user_confirmation, now) ==
    LET args == <<name, items, need_user_confirmation>>
        r == Run(f, LAMBDA m : create_list_variable(m, name, items, now))
    IN  IF name = "" THEN Answer(f, <<"Error: name is required">>)
        ELSE IF ~TakesArgs(create_list_variable_params, args)
        THEN Answer(f, <<"Error creating list variable: ", "TypeError">>)
        ELSE IF r.exc # None
        THEN Answer(r.fs, <<"Error creating list variable: ", r.exc[1].type>>)
        ELSE Answer(r.fs, <<"Successfully created list variable: ", name>>)

handle_update_list_variable(f, name, items, need_user_confirmation, now) ==
    LET args == <<name, items, need_user_confirmation>>
        r == Run(f, LAMBDA m : update_list_variable(m, name, items, now))
    IN  IF name = "" THEN Answer(f, <<"Error: name is required">>)
        ELSE IF items = None /\ need_user_confirmation = None
        THEN Answer(f, <<"Error: at least one of items or need_user_confirmation must be provided">>)
        ELSE IF ~TakesArgs(update_list_variable_params, args)
        THEN Answer(f, <<"Error updating list variable: ", "TypeError">>)
        ELSE IF r.exc # None
        THEN Answer(r.fs, <<"Error updating list variable: ", r.exc[1].type>>)
        ELSE IF r.ret
        THEN Answer(r.fs, <<"Successfully updated list variable: ", name>>)
        ELSE Answer(r.fs, <<"List variable not found: ", name>>)

ListNames == {"skip_rules", "other"}
ItemLists == {<<>>, <<"i1">>}
ListItems == {"i1", "i2"}
OptionalItems == {None} \cup {Some(l) : l \in ItemLists}
OptionalFlags == {None, Some(FALSE), Some(TRUE)}

ListVariables(f) == Stored(f).list_variables

CreateListVariable ==
    \E name \in ListNames, items \in ItemLists :
        Call("create_list_variable", <<name, items>>,
             Run(fs, LAMBDA m : create_list_variable(m, name, items, clock)))

ReadListVariable ==
    \E name \in ListNames :
        Call("read_list_variable", <<name>>,
             Run(fs, LAMBDA m : read_list_variable(m, name)))

UpdateListVariable ==
    \E name \in ListNames, items \in OptionalItems :
        Call("update_list_variable", <<name, items>>,
             Run(fs, LAMBDA m : update_list_variable(m, name, items, clock)))

AppendToListVariable ==
    \E name \in ListNames, item \in ListItems :
        /\ IF name \notin DOMAIN ListVariables(fs) THEN TRUE
           ELSE IF ListVariables(fs)[name].items = JsonNull THEN TRUE
           ELSE Len(ListVariables(fs)[name].items) < MaxItems
        /\ Call("append_to_list_variable", <<name, item>>,
                Run(fs, LAMBDA m : append_to_list_variable(m, name, item, clock)))

HandleCreateListVariable ==
    \E name \in ListNames, items \in ItemLists, need_user_confirmation \in BOOLEAN :
        Call("handle_create_list_variable", <<name, items, need_user_confirmation>>,
             handle_create_list_variable(fs, name, items, need_user_confirmation, clock))

HandleUpdateListVariable ==
    \E name \in ListNames, items \in OptionalItems,
       need_user_confirmation \in OptionalFlags :
        Call("handle_update_list_variable", <<name, items, need_user_confirmation>>,
             handle_update_list_variable(fs, name, items, need_user_confirmation, clock))

InitLists == StoreInit({default_meta})

NextLists ==
    \/ CreateListVariable
    \/ ReadListVariable
    \/ UpdateListVariable
    \/ AppendToListVariable
    \/ HandleCreateListVariable
    \/ HandleUpdateListVariable

SpecLists == InitLists /\ [][NextLists]_vars

\* C18: append_to_list_variable(name, item) with no list variable of that
\* name returns False and leaves the store as it was, so there still is none.
C18_AppendToMissing ==
    [][(/\ last'.op = "append_to_list_variable"
        /\ last'.args[1] \notin DOMAIN ListVariables(fs))
        => /\ last'.exc = None
           /\ last'.ret = FALSE
           /\ fs' = fs
           /\ last'.args[1] \notin DOMAIN ListVariables(fs')]_vars

\* an append to skip_rules refused in a store that holds the variable other
C18_Witness ==
    /\ last.op = "append_to_list_variable"
    /\ last.args[1] = "skip_rules"
    /\ last.exc = None
    /\ last.ret = FALSE
    /\ DOMAIN ListVariables(fs) = {"other"}
    /\ ListVariables(fs)["other"].items = <<"i1", "i2">>

\* C19: the create_list_variable operation with need_user_confirmation = c
\* succeeds and stores the items and c under the name, whatever was there;
\* an append of x to a list variable then makes its items the earlier ones
\* followed by x and leaves need_user_confirmation as it was.
C19_CreateThenAppend ==
    [][/\ last'.op = "handle_create_list_variable"
            => /\ last'.ret = <<"Successfully created list variable: ", last'.args[1]>>
               /\ last'.args[1] \in DOMAIN ListVariables(fs')
               /\ ListVariables(fs')[last'.args[1]].items = last'.args[2]
               /\ Field(ListVariables(fs')[last'.args[1]], "need_user_confirmation")
                     = Some(last'.args[3])
       /\ (/\ last'.op = "append_to_list_variable"
           /\ last'.args[1] \in DOMAIN ListVariables(fs)
           /\ ListVariables(fs)[last'.args[1]].items # JsonNull)
            => /\ last'.ret = TRUE
               /\ ListVariables(fs')[last'.args[1]].items
                     = Append(ListVariables(fs)[last'.args[1]].items, last'.args[2])
               /\ Field(ListVariables(fs')[last'.args[1]], "need_user_confirmation")
                     = Field(ListVariables(fs)[last'.args[1]], "need_user_confirmation")]_vars

\* C20: the update operation on an existing list variable, given items or
\* need_user_confirmation or both, succeeds; the stored items are the ones
\* given, or the earlier ones when none were given, and the stored flag is
\* the one given, or the earlier one when none was given.
C20_UpdateKeepsUnsupplied ==
    [][(/\ last'.op \in {"handle_update_list_variable", "update_list_variable"}
        /\ last'.args[1] \in DOMAIN ListVariables(fs)
        /\ last'.op = "handle_update_list_variable"
              => last'.args[2] # None \/ last'.args[3] # None)
        => LET name == last'.args[1]
               items == last'.args[2]
               flag == IF Len(last'.args) = 3 THEN last'.args[3] ELSE None
               old == ListVariables(fs)[name]
           IN  /\ last'.exc = None
               /\ last'.ret \in {TRUE, <<"Successfully updated list variable: ", name>>}
               /\ name \in DOMAIN ListVariables(fs')
               /\ ListVariables(fs')[name].items
                     = IF items # None THEN items[1] ELSE old.items
               /\ Field(ListVariables(fs')[name], "need_user_confirmation")
                     = IF flag # None THEN flag
                       ELSE Field(old, "need_user_confirmation")]_vars

\* ------------------------------------------- the items of a list variable
RemoveFromListVariable ==
    \E name \in ListNames, item \in ListItems :
        LET r == Run(fs, LAMBDA m : remove_from_list_variable(m, name, item, clock))
        IN  /\ fs' = r.fs
            /\ last' = [op |-> "remove_from_list_variable", args |-> <<name, item>>,
                        ret |-> r.ret, exc |-> r.exc]
            /\ hist' = [hist EXCEPT !.itemsBefore =
                            IF name \in DOMAIN ListVariables(fs)
                            THEN Some(ListVariables(fs)[name].items) ELSE None]
            /\ UNCHANGED <<files, clock, procs>>

DeleteListVariable ==
    \E name \in ListNames :
        Call("delete_list_variable", <<name>>,
             Run(fs, LAMBDA m : delete_list_variable(m, name)))

InitItems == StoreInit({default_meta})

NextItems ==
    \/ CreateListVariable
    \/ AppendToListVariable
    \/ RemoveFromListVariable
    \/ DeleteListVariable

SpecItems == InitItems /\ [][NextItems]_vars

\* C21: remove_from_list_variable(name, item) returns False and leaves the
\* store as it was when there is no variable of that name or the item is not
\* among its items; otherwise it returns True and the items are the earlier
\* ones without the first occurrence of the item, the others in their order
\* (any later occurrence stays), every other variable being as before.
C21_RemoveFirstOccurrence ==
    [][last'.op = "remove_from_list_variable" =>
        LET name == last'.args[1]
            item == last'.args[2]
            before == ListVariables(fs)
            after == ListVariables(fs')
        IN  /\ last'.exc = None
            /\ IF name \in DOMAIN before /\ IsIn(item, before[name].items)
               THEN /\ last'.ret = TRUE
                    /\ DOMAIN after = DOMAIN before
                    /\ \A n \in DOMAIN before \ {name} : after[n] = before[n]
                    /\ \E i \in 1..Len(before[name].items) :
                        /\ before[name].items[i] = item
                        /\ \A j \in 1..(i - 1) : before[name].items[j] # item
                        /\ after[name].items =
                              SubSeq(before[name].items, 1, i - 1)
                              \o SubSeq(before[name].items, i + 1, Len(before[name].items))
                    /\ Stored(fs').todos = Stored(fs).todos
                    /\ Stored(fs').plans = Stored(fs).plans
               ELSE last'.ret = FALSE /\ fs' = fs]_vars

\* an item stored twice was removed once: its later occurrence is still there
C21_Witness ==
    /\ last.op = "remove_from_list_variable"
    /\ last.exc = None
    /\ last.ret = TRUE
    /\ hist.itemsBefore = Some(<<last.args[2], last.args[2]>>)
    /\ ListVariables(fs)[last.args[1]].items = <<last.args[2]>>

\* --------------------------------------- the shape of the stored plans
ReadAllPlans ==
    Call("read_all_plans", <<>>, Run(fs, LAMBDA m : read_all_plans(m, clock)))

UpdatePlan ==
    \E plan_id \in PlanIdArgs, content \in Contents, title \in Titles :
        Call("update_plan", <<plan_id, content, title>>,
             Run(fs, LAMBDA m : update_plan(m, plan_id, content, title, clock)))

InitShape == StoreInit({LegacyMeta, ListPlanMeta})

NextShape ==
    \/ CreatePlan
    \/ ReadPlan
    \/ ReadAllPlans
    \/ UpdatePlan
    \/ DeletePlan
    \/ CreateTodoAt({PlanId(1), LegacyId(<<"src">>)})
    \/ RemoveMetaFile

SpecShape == InitShape /\ [][NextShape]_vars

\* the stored document parses and holds its plans as a mapping / as a list
StoredShape(f, kind) == Readable(f) /\ Stored(f).plans.kind = kind

PlanOps ==
    {"create_plan", "read_plan", "read_all_plans", "update_plan", "delete_plan",
     "create_todo"}

\* C22: an operation that touches plans (create_plan, read_plan,
\* read_all_plans, update_plan, delete_plan, create_todo) and finds a
\* non-empty legacy mapping of plans leaves the stored document with
\* list-shaped plans whose ids are legacy_<directory>.
C22_LegacyUpgradePersisted ==
    [][(/\ StoredShape(fs, "dict")
        /\ Stored(fs).plans.items # <<>>
        /\ last'.op \in PlanOps)
       => /\ StoredShape(fs', "list")
          /\ \A i \in 1..Len(Stored(fs).plans.items) :
                last'.op # "delete_plan" =>
                    \E j \in 1..Len(Stored(fs').plans.items) :
                        Stored(fs').plans.items[j].id =
                            LegacyId(Stored(fs).plans.items[i].directory)]_vars

\* C24: once the stored document has list-shaped plans, it never has
\* mapping-shaped plans again, whatever operations follow and also when the
\* document is missing and load recreates it.
C24_ListShapeStays ==
    hist.listSeen => ~StoredShape(fs, "dict")

\* ---------------------------------------------- calls that find nothing
DocDirectories == {<<"src">>, <<"lib">>}
DocContents == {<<"d1">>, <<"d2">>}

UpdateDoc ==
    \E directory \in DocDirectories, content \in DocContents :
        Call("update_doc", <<directory, content>>,
             Run(fs, LAMBDA m : update_doc(m, directory, content)))

\* a document that holds a plan, a todo linked to it, a doc and a list
\* variable, written in the list schema or on top of a legacy document
FilledMeta(meta0, related_plan) ==
    LET a == create_todo(meta0, <<"c1">>, related_plan, <<"end">>, 0).meta
        b == create_doc(a, <<"src">>, <<"d1">>).meta
    IN  create_list_variable(b, "skip_rules", <<"i1">>, 0).meta

InitNotFound ==
    StoreInit({FilledMeta(ListPlanMeta, PlanId(1)),
               FilledMeta(LegacyMeta, LegacyId(<<"src">>))})

NextNotFound ==
    \/ UpdatePlan
    \/ DeletePlan
    \/ UpdateTodo({None})
    \/ DeleteTodo
    \/ MoveTodo
    \/ UpdateDoc
    \/ UpdateListVariable
    \/ DeleteListVariable

SpecNotFound == InitNotFound /\ [][NextNotFound]_vars

\* the call op(args) names something the stored document does not hold
Missing(f, op, args) ==
    LET meta == Stored(f)
    IN  CASE op \in {"update_plan", "delete_plan"} ->
               IF meta.plans.kind = "list"
               THEN \A i \in 1..Len(meta.plans.items) : meta.plans.items[i].id # args[1]
               ELSE \A i \in 1..Len(meta.plans.items) :
                        LegacyId(meta.plans.items[i].directory) # args[1]
          [] op \in {"update_todo", "delete_todo", "move_todo"} ->
               \A i \in 1..Len(meta.todos) : meta.todos[i].id # args[1]
          [] op = "update_doc" -> args[1] \notin DOMAIN meta.docs
          [] op \in {"update_list_variable", "delete_list_variable"} ->
               args[1] \notin DOMAIN meta.list_variables
          [] OTHER -> FALSE

\* C23: update_plan, delete_plan, update_todo, delete_todo, move_todo,
\* update_doc, update_list_variable and delete_list_variable, called with an
\* id, directory or name the document does not hold, raise nothing, return
\* False and leave the stored document as it was.
C23_NotFoundIsQuiet ==
    [][Missing(fs, last'.op, last'.args) =>
        /\ last'.exc = None
        /\ last'.ret = FALSE
        /\ fs' = fs]_vars

\* update_plan found no plan in a legacy document, whose plans it had
\* converted in memory: the stored plans still are the mapping
C23_Witness ==
    /\ last.op = "update_plan"
    /\ last.exc = None
    /\ last.ret = FALSE
    /\ StoredShape(fs, "dict")
    /\ Stored(fs).plans.items # <<>>
    /\ Stored(fs).todos # <<>>

\* ------------------------------------------------- the ids of the todos
\* todoIds: the ids create_todo returned since the todo list was last empty,
\* as long as no todo was deleted since (todoClean).
HistTodos(h, f, op, r) ==
    IF Readable(f) /\ Stored(f).todos = <<>>
    THEN [h EXCEPT !.todoIds = <<>>, !.todoClean = TRUE]
    ELSE IF op = "create_todo" /\ r.exc = None /\ h.todoClean
    THEN [h EXCEPT !.todoIds = Append(@, r.ret)]
    ELSE IF op = "delete_todo" /\ r.exc = None /\ r.ret = TRUE
    THEN [h EXCEPT !.todoIds = <<>>, !.todoClean = FALSE]
    ELSE h

CreateTodoCounted ==
    \E content \in Contents, position \in AllPositions :
        LET r == Run(fs, LAMBDA m : create_todo(m, content, PlanId(1), position, clock))
        IN  /\ Len(StoredTodos(fs)) < MaxTodos + 1
            /\ fs' = r.fs
            /\ last' = [op |-> "create_todo", args |-> <<content, PlanId(1), position>>,
                        ret |-> r.ret, exc |-> r.exc]
            /\ hist' = HistTodos(hist, r.fs, "create_todo", r)
            /\ UNCHANGED <<files, clock, procs>>

DeleteTodoCounted ==
    \E todo_id \in TodoIdArgs :
        LET r == Run(fs, LAMBDA m : delete_todo(m, todo_id))
        IN  /\ fs' = r.fs
            /\ last' = [op |-> "delete_todo", args |-> <<todo_id>>,
                        ret |-> r.ret, exc |-> r.exc]
            /\ hist' = HistTodos(hist, r.fs, "delete_todo", r)
            /\ UNCHANGED <<files, clock, procs>>

InitTodoIds == StoreInit({ListPlanMeta})

NextTodoIds ==
    \/ CreateTodoCounted
    \/ MoveTodo
    \/ DeleteTodoCounted

SpecTodoIds == InitTodoIds /\ [][NextTodoIds]_vars

\* C26: starting from an empty todo list, with no delete_todo in between,
\* the k-th create_todo returns todo_ followed by k in three digits, whatever
\* position each call names, so the ids returned are pairwise distinct.
C26_TodoIdSequence ==
    /\ \A k \in 1..Len(hist.todoIds) : hist.todoIds[k] = <<"todo_">> \o Pad3(k)
    /\ \A j, k \in 1..Len(hist.todoIds) : hist.todoIds[j] = hist.todoIds[k] => j = k

\* the third create of a run, at the start of a list that was reordered
C26_Witness ==
    /\ Len(hist.todoIds) = 3
    /\ last.op = "create_todo"
    /\ last.args[3] = <<"start">>
    /\ StoredTodos(fs)[2].id = <<"todo_", "0", "0", "2">>
    /\ StoredTodos(fs)[3].id = <<"todo_", "0", "0", "1">>

NormalizedKeys == {<<"a.py">>, <<"b.py">>}
FileStatusOf(f) == Stored(f).file_status

\* C11: update_file_status(file_path, audited = true) on a file that does not
\* exist returns False and leaves the store as it was; on an existing file it
\* returns True and the stored file_status is the earlier one with the record
\* {audited: true, audited_at: now, file_hash: digest of the content} at the
\* root-relative key of the file, whatever was there before, every other key
\* and every other part of the document being as before.
C11_MarkAudited ==
    [][(last'.op = "update_file_status" /\ last'.args[2] = TRUE)
        => LET f == absolute(last'.args[1])
               k == storage_key(last'.args[1])
           IN  IF ~files[f].exists
               THEN last'.ret = FALSE /\ last'.exc = None /\ fs' = fs
               ELSE /\ last'.ret = TRUE
                    /\ last'.exc = None
                    /\ k \in NormalizedKeys
                    /\ Readable(fs')
                    /\ DOMAIN FileStatusOf(fs') = DOMAIN FileStatusOf(fs) \cup {k}
                    /\ FileStatusOf(fs')[k] =
                          [audited |-> TRUE, audited_at |-> clock,
                           file_hash |-> sha256_hexdigest(files[f].data)]
                    /\ \A j \in DOMAIN FileStatusOf(fs) \ {k} :
                          FileStatusOf(fs')[j] = FileStatusOf(fs)[j]
                    /\ Stored(fs') =
                          [Stored(fs) EXCEPT !.file_status = FileStatusOf(fs')]]_vars

\* a record replaced: the file had a record, was edited and was marked again
\* under its other spelling
C11_Witness ==
    /\ last.op = "update_file_status"
    /\ last.args = << <<"/", "proj", "a.py">>, TRUE >>
    /\ last.ret = TRUE
    /\ hist.hadRecord
    /\ DOMAIN FileStatusOf(fs) = NormalizedKeys
    /\ FileStatusOf(fs)[<<"a.py">>].file_hash = sha256_hexdigest(<<"y">>)
    /\ FileStatusOf(fs)[<<"a.py">>].audited_at = 1
    /\ FileStatusOf(fs)[<<"b.py">>].audited_at = 0

\* C12: update_file_status(file_path, audited = false) returns True; file_status
\* has no record at the key of the file afterwards and every other record is
\* as before: a record at that key is the only thing removed, and without
\* one nothing is.
C12_ClearAudit ==
    [][(last'.op = "update_file_status" /\ last'.args[2] = FALSE)
        => LET k == storage_key(last'.args[1])
           IN  /\ last'.ret = TRUE
               /\ last'.exc = None
               /\ Readable(fs')
               /\ k \notin DOMAIN FileStatusOf(fs')
               /\ DOMAIN FileStatusOf(fs') = DOMAIN FileStatusOf(fs) \ {k}
               /\ \A j \in DOMAIN FileStatusOf(fs') :
                     FileStatusOf(fs')[j] = FileStatusOf(fs)[j]
               /\ k \notin DOMAIN FileStatusOf(fs) => Stored(fs') = Stored(fs)]_vars

\* a clear of a file without a record, next to the record of another file
C12_Witness ==
    /\ last.op = "update_file_status"
    /\ last.args[2] = FALSE
    /\ last.ret = TRUE
    /\ ~hist.hadRecord
    /\ DOMAIN FileStatusOf(fs) = {<<"b.py">>}
    /\ last.args[1] # <<"b.py">>

\* a clear that removed the record of one file and kept the other's
C12_WitnessRemoved ==
    /\ last.op = "update_file_status"
    /\ last.args[2] = FALSE
    /\ hist.hadRecord
    /\ DOMAIN FileStatusOf(fs) = {<<"b.py">>}

\* C13: get_file_status(file_path) returns None without raising both when
\* file_status has no record at the key of the file and when it has one but
\* the file does not exist; it leaves the store, that record included, as it
\* was.
C13_NoRecordOrMissing ==
    [][(/\ last'.op = "get_file_status"
        /\ \/ lookup_key(last'.args[1]) \notin DOMAIN FileStatusOf(fs)
           \/ ~files[absolute(last'.args[1])].exists)
        => /\ last'.ret = None
           /\ last'.exc = None
           /\ fs' = fs]_vars

\* the record of a file that was removed after its audit
C13_Witness ==
    /\ last.op = "get_file_status"
    /\ last.ret = None
    /\ ~files[absolute(last.args[1])].exists
    /\ hist.hadRecord
    /\ lookup_key(last.args[1]) \in DOMAIN FileStatusOf(fs)
    /\ FileStatusOf(fs)[lookup_key(last.args[1])].audited = TRUE

\* C25: every record stored in file_status has audited = true, an audited_at
\* time and a non-empty file_hash, which is the digest of the content the
\* file had when the record was written.
C25_FileStatusRecords ==
    \A k \in DOMAIN FileStatusOf(fs) :
        /\ DOMAIN FileStatusOf(fs)[k] = {"audited", "audited_at", "file_hash"}
        /\ FileStatusOf(fs)[k].audited = TRUE
        /\ FileStatusOf(fs)[k].audited_at \in 0..clock
        /\ FileStatusOf(fs)[k].file_hash # <<>>
        /\ FileStatusOf(fs)[k].file_hash[1] # ""
        /\ hist.lastMark[absolute(k)] # None
        /\ FileStatusOf(fs)[k].file_hash =
              sha256_hexdigest(hist.lastMark[absolute(k)][1].data)

\* two records, one of a file edited since and one of a file removed since
C25_Witness ==
    /\ DOMAIN FileStatusOf(fs) = NormalizedKeys
    /\ Changed(absolute(<<"a.py">>))
    /\ ~files[absolute(<<"b.py">>)].exists
    /\ last.op = "get_file_status"

\* ------------------------------------------------- the table of list_status
ListedFiles ==
    {project_root \o <<"a.py">>, project_root \o <<"sub", "s.py">>,
     project_root \o <<"sub", "__init__.py">>, project_root \o <<"notes.md">>}
EditedFiles == {project_root \o <<"a.py">>, project_root \o <<"sub", "s.py">>}
ListPaths == {<<"a.py">>, <<"sub", "s.py">>, <<"sub", "__init__.py">>, <<"notes.md">>}
DirectoryArgs == {None, Some(<<"sub">>), Some(<<"nodir">>)}

\* contents whose first line is a '#' comment with the skip token, and not
MarkedContents == {<<"#", " ", "AUDIT_SKIP", "\n", "x">>, <<" ", "#", "AUDIT_SKIP">>}
PlainContents == {<<"x">>, <<"x", "\n", "#", "AUDIT_SKIP">>}

\* a document of the earlier format, whose record of a.py has no file_hash
OldFormatMeta ==
    [default_meta EXCEPT !.file_status =
        Put(<<>>, <<"a.py">>, [audited |-> TRUE, audited_at |-> 0])]

MarkListed ==
    \E file_path \in ListPaths, audited \in BOOLEAN :
        Call("update_file_status", <<file_path, audited>>,
             Run(fs, LAMBDA m : update_file_status(m, files, file_path, audited, clock)))

ListFileStatus ==
    \E directory \in DirectoryArgs :
        Call("list_file_status", <<directory>>,
             Run(fs, LAMBDA m : list_file_status(m, files, directory)))

EditListed ==
    \E f \in EditedFiles, data \in MarkedContents \cup PlainContents :
        /\ files[f] # File(data)
        /\ files' = [files EXCEPT ![f] = File(data)]
        /\ last' = [op |-> "write_file", args |-> <<f, data>>, ret |-> None, exc |-> None]
        /\ UNCHANGED <<fs, clock, procs, hist>>

RemoveListed ==
    \E f \in EditedFiles :
        /\ files[f].exists
        /\ files' = [files EXCEPT ![f] = NoFile]
        /\ last' = [op |-> "remove_file", args |-> <<f>>, ret |-> None, exc |-> None]
        /\ UNCHANGED <<fs, clock, procs, hist>>

InitList ==
    /\ fs \in {[meta_file |-> File(json_dump(m)), temp_file |-> NoFile] :
                  m \in {default_meta, OldFormatMeta}}
    /\ files = [f \in ListedFiles |-> File(<<"x">>)]
    /\ clock = 0
    /\ procs = [p \in Procs |-> Idle]
    /\ last = [op |-> "init", args |-> <<>>, ret |-> None, exc |-> None]
    /\ hist = Hist0(fs)

NextList ==
    \/ MarkListed
    \/ ListFileStatus
    \/ EditListed
    \/ RemoveListed

SpecList == InitList /\ [][NextList]_vars

\* the rows of a table are those of the keys S, one each, in ascending order
RowsOf(rows, S) ==
    /\ Len(rows) = Cardinality(S)
    /\ {rows[i].file : i \in 1..Len(rows)} = S
    /\ \A i, j \in 1..Len(rows) :
          i < j => StrLess(PosixCodes(rows[i].file), PosixCodes(rows[j].file))

PythonKeys(f) ==
    {k \in DOMAIN FileStatusOf(f) :
        /\ EndsWith(PosixCodes(k), <<46, 112, 121>>)
        /\ ~EndsWith(PosixCodes(k), Codes("__init__.py"))}

HasMarker(k) ==
    /\ files[project_root \o k].exists
    /\ files[project_root \o k].data \in MarkedContents
HasEntry(k) == k \in DOMAIN FileStatusOf(fs)
HasHash(k) == "file_hash" \in DOMAIN FileStatusOf(fs)[k]
Expected(k) ==
    IF HasMarker(k) THEN "Manually passed"
    ELSE IF HasEntry(k) /\ ~files[project_root \o k].exists THEN "Not Found"
    ELSE IF HasEntry(k) /\ ~HasHash(k) THEN "Audited (no hash)"
    ELSE IF HasEntry(k) /\ FileStatusOf(fs)[k].file_hash
                               # sha256_hexdigest(files[project_root \o k].data)
    THEN "Modified"
    ELSE IF HasEntry(k) THEN "Audited"
    ELSE "Not Audited"

\* C29: in every table of list_file_status the row of a file whose first
\* line is a '#' comment containing AUDIT_SKIP says manually passed, whether
\* the file has no record, a record with the hash of its content, with another
\* hash or without hash; the other rows say not found (record, file missing),
\* no hash (record without file_hash), modified (hashes differ), audited
\* (hashes equal) and not audited (no record).
C29_RowStatus ==
    (last.op = "list_file_status" /\ last.ret.kind = "table")
        => \A i \in 1..Len(last.ret.rows) :
              last.ret.rows[i].status = Expected(last.ret.rows[i].file)

\* a table with a marked file whose record holds the hash of other content
\* next to a file that is missing
C29_Witness ==
    /\ last.op = "list_file_status"
    /\ last.ret.kind = "table"
    /\ \E i \in 1..Len(last.ret.rows) :
          /\ last.ret.rows[i].status = "Manually passed"
          /\ HasEntry(last.ret.rows[i].file)
          /\ HasHash(last.ret.rows[i].file)
          /\ FileStatusOf(fs)[last.ret.rows[i].file].file_hash
                # sha256_hexdigest(files[project_root \o last.ret.rows[i].file].data)
    /\ \E i \in 1..Len(last.ret.rows) : last.ret.rows[i].status = "Not Found"

\* a marked file without record, listed by directory
C29_WitnessNoEntry ==
    /\ last.op = "list_file_status"
    /\ last.ret.kind = "table"
    /\ \E i \in 1..Len(last.ret.rows) :
          /\ last.ret.rows[i].status = "Manually passed"
          /\ ~HasEntry(last.ret.rows[i].file)

\* a marked file whose record has no file_hash, and the same record unmarked
C29_WitnessNoHash ==
    /\ last.op = "list_file_status"
    /\ last.ret.kind = "table"
    /\ \E i \in 1..Len(last.ret.rows) :
          /\ last.ret.rows[i].status = "Manually passed"
          /\ HasEntry(last.ret.rows[i].file)
          /\ ~HasHash(last.ret.rows[i].file)

C29_WitnessLabels ==
    /\ last.op = "list_file_status"
    /\ last.ret.kind = "table"
    /\ {last.ret.rows[i].status : i \in 1..Len(last.ret.rows)}
          = {"Audited (no hash)", "Modified"}

\* ------------------------------------------------- spellings of one file
\* a.py of the project root spelled relative, absolute and through sub/..,
\* and a file outside the root
Spellings ==
    {<<"a.py">>, project_root \o <<"a.py">>, <<"sub", "..", "a.py">>,
     <<"/", "etc", "o.py">>}
SpelledFiles == {os_path(absolute(p)) : p \in Spellings}

MarkSpelled ==
    \E file_path \in Spellings, audited \in BOOLEAN :
        Call("update_file_status", <<file_path, audited>>,
             Run(fs, LAMBDA m : update_file_status(m, files, file_path, audited, clock)))

GetSpelled ==
    \E file_path \in Spellings :
        Call("get_file_status", <<file_path>>,
             Run(fs, LAMBDA m : get_file_status(m, files, file_path)))

ListTracked ==
    Call("list_file_status", <<None>>,
         Run(fs, LAMBDA m : list_file_status(m, files, None)))

EditSpelled ==
    \E f \in SpelledFiles, data \in FileContents :
        /\ files[f] # File(data)
        /\ files' = [files EXCEPT ![f] = File(data)]
        /\ last' = [op |-> "write_file", args |-> <<f, data>>, ret |-> None, exc |-> None]
        /\ UNCHANGED <<fs, clock, procs, hist>>

InitPaths ==
    /\ fs = [meta_file |-> File(json_dump(default_meta)), temp_file |-> NoFile]
    /\ files = [f \in SpelledFiles |-> File(<<"x">>)]
    /\ clock = 0
    /\ procs = [p \in Procs |-> Idle]
    /\ last = [op |-> "init", args |-> <<>>, ret |-> None, exc |-> None]
    /\ hist = Hist0(fs)

NextPaths ==
    \/ MarkSpelled
    \/ GetSpelled
    \/ ListTracked
    \/ EditSpelled
    \/ Tick

SpecPaths == InitPaths /\ [][NextPaths]_vars

\* the file a stored key stands for, and the stored keys of a file
FileOfKey(k) == os_path(under_root(k))
KeysOfFile(f) == {k \in DOMAIN FileStatusOf(fs) : FileOfKey(k) = f}

\* C30: every file has at most one key in file_status, the root-relative
\* path for a file under the project root and the absolute path for a file
\* outside it, whatever spelling it was marked under; so get_file_status
\* under any spelling of a file finds the record written under another,
\* update_file_status(audited = false) under any spelling removes it, and
\* list_file_status shows one row for the file.
C30_OneKeyPerFile ==
    /\ \A f \in SpelledFiles :
          KeysOfFile(f) \subseteq
              {IF IsUnder(f, project_root)
               THEN SubSeq(f, Len(project_root) + 1, Len(f)) ELSE f}
    /\ (last.op = "get_file_status" /\ KeysOfFile(os_path(absolute(last.args[1]))) # {})
          => last.ret # None
    /\ (last.op = "update_file_status" /\ last.args[2] = FALSE)
          => KeysOfFile(os_path(absolute(last.args[1]))) = {}
    /\ (last.op = "list_file_status" /\ last.ret.kind = "table")
          => \A i, j \in 1..Len(last.ret.rows) :
                FileOfKey(last.ret.rows[i].file) = FileOfKey(last.ret.rows[j].file)
                    => i = j

\* ------------------------------------------- the times of a list variable
\* the list variable methods called with lists of the one item i1
CreateStamped ==
    \E name \in ListNames, items \in ItemLists :
        Call("create_list_variable", <<name, items>>,
             Run(fs, LAMBDA m : create_list_variable(m, name, items, clock)))

UpdateStamped ==
    \E name \in ListNames, items \in ItemLists :
        Call("update_list_variable", <<name, Some(items)>>,
             Run(fs, LAMBDA m : update_list_variable(m, name, Some(items), clock)))

AppendStamped ==
    \E name \in ListNames :
        /\ name \in DOMAIN ListVariables(fs) => Len(ListVariables(fs)[name].items) < MaxItems
        /\ Call("append_to_list_variable", <<name, "i1">>,
                Run(fs, LAMBDA m : append_to_list_variable(m, name, "i1", clock)))

RemoveStamped ==
    \E name \in ListNames, item \in ListItems :
        Call("remove_from_list_variable", <<name, item>>,
             Run(fs, LAMBDA m : remove_from_list_variable(m, name, item, clock)))

InitStamps == StoreInit({default_meta})

NextStamps ==
    \/ CreateStamped
    \/ UpdateStamped
    \/ AppendStamped
    \/ RemoveStamped
    \/ Tick

SpecStamps == InitStamps /\ [][NextStamps]_vars

StampOps ==
    {"create_list_variable", "update_list_variable", "append_to_list_variable",
     "remove_from_list_variable"}

\* C31: create, update, append and remove of a list variable, when they
\* change the variable (return True), leave its updated_at at the time of the
\* call and the updated_at of every other variable as it was; when they
\* return False no updated_at changes.
C31_UpdatedAtRefreshed ==
    [][last'.op \in StampOps =>
        LET name == last'.args[1]
            before == ListVariables(fs)
            after == ListVariables(fs')
        IN  /\ last'.exc = None
            /\ IF last'.ret = TRUE
               THEN /\ name \in DOMAIN after
                    /\ after[name].updated_at = clock
                    /\ \A n \in DOMAIN before \ {name} :
                          n \in DOMAIN after /\ after[n].updated_at = before[n].updated_at
               ELSE /\ DOMAIN after = DOMAIN before
                    /\ \A n \in DOMAIN before :
                          after[n].updated_at = before[n].updated_at]_vars

\* an update at a later time than the creation, next to a variable that kept
\* its earlier time
C31_Witness ==
    /\ last.op = "update_list_variable"
    /\ last.exc = None
    /\ last.ret = TRUE
    /\ clock > 0
    /\ ListVariables(fs)[last.args[1]].created_at = 0
    /\ ListVariables(fs)[last.args[1]].updated_at = clock
    /\ \E n \in DOMAIN ListVariables(fs) : ListVariables(fs)[n].updated_at < clock

\* ------------------------------------------------------------ tool handlers
\* class FileStatus(Enum): AUDITED = "audited"
FileStatusMembers == {"AUDITED"}
FileStatusValues == {"audited"}

\* the names handlers/project_handler.py binds at module level before its
\* handlers (its imports and pm)
project_handler_names == {"sys", "Path", "List", "Dict", "Any", "types", "ProjectManager", "pm"}

\* arguments.get(key): None when the key is absent (no argument modelled here
\* is an empty string, an empty list or None itself)
Get(arguments, key) == IF key \in DOMAIN arguments THEN Some(arguments[key]) ELSE None

\* audited_code.count(tok)
Count(s, tok) == Cardinality({i \in 1..Len(s) : s[i] = tok})

\* what a handler leaves and answers: the store, the source files, the text
Out(f, fl, text) == [fs |-> f, files |-> fl, ret |-> text, exc |-> None]

handle_create_plan(f, fl, arguments, now) ==
    LET content == Get(arguments, "content")
        title == Get(arguments, "title")
        r == Run(f, LAMBDA m : create_plan(m, content[1], title, now))
    IN  IF content = None THEN Out(f, fl, <<"Error: content is required">>)
        ELSE IF r.exc # None
        THEN Out(r.fs, fl, <<"Error creating plan: ", r.exc[1].type>>)
        ELSE Out(r.fs, fl, <<"Successfully created plan ", r.ret>>)

\* FileStatus(status) is evaluated first: NameError where the module binds no
\* FileStatus, ValueError for a value of no member; a member is a true value
\* for the audited parameter
handle_update_file_status(f, fl, arguments, now) ==
    LET file_path == Get(arguments, "file_path")
        status == Get(arguments, "status")
        r == Run(f, LAMBDA m : update_file_status(m, fl, file_path[1], TRUE, now))
    IN  IF file_path = None \/ status = None
        THEN Out(f, fl, <<"Error: file_path and status are required">>)
        ELSE IF "FileStatus" \notin project_handler_names
        THEN Out(f, fl, <<"Error updating file status: ", "NameError">>)
        ELSE IF status[1] \notin FileStatusValues
        THEN Out(f, fl, <<"Invalid status: ", status[1]>>)
        ELSE IF r.exc # None
        THEN Out(r.fs, fl, <<"Error updating file status: ", r.exc[1].type>>)
        ELSE IF r.ret
        THEN Out(r.fs, fl, <<"Successfully updated ", file_path[1], " status to ", status[1]>>)
        ELSE Out(r.fs, fl, <<"Failed to update status for ", file_path[1]>>)

\* the text of the answer after an audit: the two counts
AuditDone(audited_code) ==
    <<"audit done", Count(audited_code, "CRITICAL_ERROR"), Count(audited_code, "RISK_INFO")>>

\* audited: what ai_service.audit_architecture_consistency returned, None when
\* it raised.  FileStatus.REVIEWED is evaluated before update_file_status is
\* called; the AttributeError of a name that is no member, like any exception
\* of the call, is caught and printed by the inner try
handle_audit_architecture_consistency(f, fl, arguments, audited, now) ==
    LET old_file == Get(arguments, "old_file")
        new_file == Get(arguments, "new_file")
        exemption_list_name == Get(arguments, "exemption_list")
        ex == Run(f, LAMBDA m : read_list_variable(m, exemption_list_name[1]))
        f1 == IF exemption_list_name = None THEN f ELSE ex.fs
        written == [fl EXCEPT ![os_path(absolute(new_file[1]))] = File(audited[1])]
        f2 == IF "REVIEWED" \in FileStatusMembers
              THEN Run(f1, LAMBDA m : update_file_status(m, written, new_file[1], TRUE, now)).fs
              ELSE f1
    IN  IF old_file = None \/ new_file = None
        THEN Out(f, fl, <<"Error: old_file and new_file are required">>)
        ELSE IF \/ ~fl[os_path(absolute(old_file[1]))].exists
                \/ ~fl[os_path(absolute(new_file[1]))].exists
        THEN Out(f, fl, <<"Error: File not found">>)
        ELSE IF exemption_list_name # None /\ ex.exc # None
        THEN Out(f1, fl, <<"Error during architecture consistency audit: ", ex.exc[1].type>>)
        ELSE IF exemption_list_name # None /\ ex.ret = None
        THEN Out(f1, fl, <<"Error: Exemption list not found: ", exemption_list_name[1]>>)
        ELSE IF /\ exemption_list_name # None
                /\ "need_user_confirmation" \in DOMAIN ex.ret[1]
                /\ ex.ret[1].need_user_confirmation
        THEN Out(f1, fl, <<"Error: Exemption list does not need user confirmation">>)
        ELSE IF audited = None
        THEN Out(f1, fl, <<"Error during architecture consistency audit: ", "Exception">>)
        ELSE Out(f2, written, AuditDone(audited[1]))

\* registry.register(tool, handler) of register_project_tools and
\* register_ai_tools, for three of the tools
registry_handlers ==
    [create_plan |-> "handle_create_plan",
     update_file_status |-> "handle_update_file_status",
     audit_architecture_consistency |-> "handle_audit_architecture_consistency"]
has_tool(name) == name \in DOMAIN registry_handlers
get_handler(name) == registry_handlers[name]

\* async def handle_x(arguments: Dict[str, Any]): the parameters of a handler
handler_params == <<"arguments">>

\* a call with npos positional arguments and the keyword arguments kw binds
\* to params; otherwise it raises TypeError before the function runs
Binds(params, npos, kw) ==
    /\ npos <= Len(params)
    /\ kw \subseteq {params[i] : i \in (npos + 1)..Len(params)}

\* the handler named h, run
Handler(h, f, fl, arguments, audited, now) ==
    CASE h = "handle_create_plan" -> handle_create_plan(f, fl, arguments, now)
      [] h = "handle_update_file_status" -> handle_update_file_status(f, fl, arguments, now)
      [] h = "handle_audit_architecture_consistency" ->
            handle_audit_architecture_consistency(f, fl, arguments, audited, now)

\* result = await handler(arguments or {}, server=server); called: the
\* handler was run
handle_call_tool(f, fl, name, arguments, audited, now) ==
    IF ~has_tool(name)
    THEN Out(f, fl, <<"Unknown tool: ", name>>) @@ [called |-> FALSE]
    ELSE IF ~Binds(handler_params, 1, {"server"})
    THEN Out(f, fl, <<"Error executing tool ", name, ": ", "TypeError">>) @@ [called |-> FALSE]
    ELSE Handler(get_handler(name), f, fl, arguments, audited, now) @@ [called |-> TRUE]

HandlerPaths == {<<"a.py">>, <<"b.py">>}
AuditedTexts == {<<"x">>, <<"y", "RISK_INFO">>}
AuditOutcomes == {Some(t) : t \in AuditedTexts} \cup {None}
AuditArguments ==
    {[old_file |-> o, new_file |-> n] : o, n \in HandlerPaths}
        \cup {[old_file |-> <<"a.py">>, new_file |-> <<"b.py">>, exemption_list |-> name] :
                name \in ListNames}
        \cup {[old_file |-> <<"a.py">>]}
StatusArguments ==
    {[file_path |-> p, audited |-> b] : p \in HandlerPaths, b \in BOOLEAN}
        \cup {[file_path |-> p, status |-> s] : p \in HandlerPaths, s \in {"audited", "reviewed"}}
        \cup {[status |-> "audited"]}
PlanArguments == {[content |-> <<"c1">>], [title |-> <<"t1">>]}
ToolNames == DOMAIN registry_handlers \cup {"no_such_tool"}
ToolArguments(name) ==
    CASE name = "create_plan" -> PlanArguments
      [] name = "update_file_status" -> StatusArguments
      [] name = "audit_architecture_consistency" -> AuditArguments
      [] OTHER -> {[content |-> <<"c1">>]}

\* a whole call of a handler: the store, the source files, the answer
HandlerCall(op, args, r, dispatch) ==
    /\ fs' = r.fs
    /\ files' = r.files
    /\ last' = [op |-> op, args |-> args, ret |-> r.ret, exc |-> r.exc]
    /\ hist' = [hist EXCEPT !.dispatch = dispatch]
    /\ UNCHANGED <<clock, procs>>

HandleAuditArchitectureConsistency ==
    \E arguments \in AuditArguments, audited \in AuditOutcomes :
        HandlerCall("handle_audit_architecture_consistency", <<arguments, audited>>,
                    handle_audit_architecture_consistency(fs, files, arguments, audited, clock),
                    hist.dispatch)

HandleUpdateFileStatus ==
    \E arguments \in StatusArguments :
        HandlerCall("handle_update_file_status", <<arguments>>,
                    handle_update_file_status(fs, files, arguments, clock),
                    hist.dispatch)

HandleCallTool ==
    \E name \in ToolNames, audited \in AuditOutcomes :
        \E arguments \in ToolArguments(name) :
            LET r == handle_call_tool(fs, files, name, arguments, audited, clock)
            IN  HandlerCall("handle_call_tool", <<name, arguments, audited>>, r,
                            [called |-> r.called,
                             expected |-> IF has_tool(name)
                                          THEN Handler(get_handler(name), fs, files,
                                                       arguments, audited, clock).ret
                                          ELSE <<>>])

\* pm.update_file_status called directly, as the tests do
UpdateHandled ==
    \E file_path \in HandlerPaths, audited \in BOOLEAN :
        HandlerCall("update_file_status", <<file_path, audited>>,
                    Run(fs, LAMBDA m : update_file_status(m, files, file_path, audited, clock))
                        @@ [files |-> files],
                    hist.dispatch)

\* a store with an exemption list, source files a.py and b.py
ExemptionMeta ==
    [default_meta EXCEPT !.list_variables =
        Put(@, "skip_rules", [items |-> <<"i1">>, created_at |-> 0, updated_at |-> 0])]

InitHandlers == StoreInit({ExemptionMeta})

NextHandlers ==
    \/ HandleAuditArchitectureConsistency
    \/ HandleUpdateFileStatus
    \/ HandleCallTool
    \/ UpdateHandled

SpecHandlers == InitHandlers /\ [][NextHandlers]_vars

\* C32: when handle_audit_architecture_consistency answers that the audit is
\* done, new_file holds the audited text and get_file_status(new_file) returns
\* a record with audited = true for that text.
C32_AuditMarksAudited ==
    (/\ last.op = "handle_audit_architecture_consistency"
     /\ last.ret[1] = "audit done")
        => LET new_file == last.args[1].new_file
           IN  /\ files[absolute(new_file)] = File(last.args[2][1])
               /\ StatusNow(new_file) # None
               /\ StatusNow(new_file)[1].audited = TRUE
               /\ StatusNow(new_file)[1].file_hash = sha256_hexdigest(last.args[2][1])

\* C33: handle_call_tool of a registered name runs the registered handler and
\* returns the answer that handler gives to the caller's arguments; of any
\* other name it runs no handler and returns the text "Unknown tool: <name>".
C33_CallToolDispatches ==
    last.op = "handle_call_tool"
        => IF has_tool(last.args[1])
           THEN /\ hist.dispatch.called
                /\ last.ret = hist.dispatch.expected
           ELSE /\ ~hist.dispatch.called
                /\ last.ret = <<"Unknown tool: ", last.args[1]>>

\* C34: after handle_update_file_status with arguments {file_path, audited},
\* the store holds, for audited = true and an existing file, the record of
\* file_path with audited = true and the hash of the file's content, and for
\* audited = false no record of file_path.
C34_SchemaRequestApplied ==
    (/\ last.op = "handle_update_file_status"
     /\ DOMAIN last.args[1] = {"file_path", "audited"})
        => LET file_path == last.args[1].file_path
               key == storage_key(file_path)
           IN  IF last.args[1].audited
               THEN files[absolute(file_path)].exists
                        => /\ Readable(fs)
                           /\ key \in DOMAIN Stored(fs).file_status
                           /\ Stored(fs).file_status[key].audited = TRUE
                           /\ Stored(fs).file_status[key].file_hash
                                = sha256_hexdigest(files[absolute(file_path)].data)
               ELSE /\ Readable(fs)
                    /\ key \notin DOMAIN Stored(fs).file_status

\* ----------------------------------------------- todos name existing plans
\* related_plan arguments: a plan of the present schema, the legacy plan of
\* the directory src, and an id with the legacy prefix twice
RefArgs == {PlanId(1), LegacyId(<<"src">>), <<"legacy_">> \o LegacyId(<<"src">>)}

CreateTodoRef == CreateTodoAt(RefArgs)

InitRefs == StoreInit({default_meta, LegacyMeta})

NextRefs ==
    \/ CreatePlan
    \/ DeletePlan
    \/ CreateTodoRef
    \/ DeleteTodo

SpecRefs == InitRefs /\ [][NextRefs]_vars

\* C35: in every stored document, read_plan(todo.related_plan) returns a plan
\* for each todo, in the legacy shape of plans and in the list shape.
C35_TodosNamePlans ==
    Readable(fs) =>
        \A i \in 1..Len(StoredTodos(fs)) :
            Resolves(Stored(fs), StoredTodos(fs)[i].related_plan)

\* ------------------------------------------------------ reads do not write
\* return meta["docs"].get(directory)
read_doc(meta, directory) ==
    Kept(meta, IF directory \in DOMAIN meta.docs THEN Some(meta.docs[directory]) ELSE None)

read_all_docs(meta) == Kept(meta, meta.docs)

get_recent_changes(meta) == Kept(meta, meta.recent_changes)

read_all_list_variables(meta) == Kept(meta, meta.list_variables)

ReadDoc ==
    \E directory \in DocDirectories :
        Call("read_doc", <<directory>>, Run(fs, LAMBDA m : read_doc(m, directory)))

ReadAllDocs == Call("read_all_docs", <<>>, Run(fs, LAMBDA m : read_all_docs(m)))

GetRecentChanges ==
    Call("get_recent_changes", <<>>, Run(fs, LAMBDA m : get_recent_changes(m)))

ReadAllListVariables ==
    Call("read_all_list_variables", <<>>, Run(fs, LAMBDA m : read_all_list_variables(m)))

\* a document with a plan, a todo, a doc, a list variable and the record of
\* a.py audited with the content x
FullMeta ==
    LET m1 == create_todo(ListPlanMeta, <<"c1">>, PlanId(1), <<"end">>, 0).meta
        m2 == create_doc(m1, <<"src">>, <<"d1">>).meta
        m3 == create_list_variable(m2, "skip_rules", <<"i1">>, 0).meta
    IN  update_file_status(m3, [f \in AllFiles |-> File(<<"x">>)], <<"a.py">>, TRUE, 0).meta

\* project_meta.json holds a full document or a legacy one, is not JSON, or
\* is absent
InitReads ==
    /\ fs \in {[meta_file |-> d, temp_file |-> NoFile] :
                d \in {File(json_dump(FullMeta)), File(json_dump(LegacyMeta)), File(<<>>), NoFile}}
    /\ files = [f \in AllFiles |-> File(<<"x">>)]
    /\ clock = 0
    /\ procs = [p \in Procs |-> Idle]
    /\ last = [op |-> "init", args |-> <<>>, ret |-> None, exc |-> None]
    /\ hist = Hist0(fs)

NextReads ==
    \/ ReadPlan
    \/ ReadAllPlans
    \/ ReadDoc
    \/ ReadAllDocs
    \/ ReadTodos
    \/ GetRecentChanges
    \/ GetFileStatus
    \/ ListFileStatus
    \/ ReadListVariable
    \/ ReadAllListVariables
    \/ WriteFile
    \/ RemoveFile

SpecReads == InitReads /\ [][NextReads]_vars

ReadOps ==
    {"read_plan", "read_all_plans", "read_doc", "read_all_docs", "read_todos",
     "get_recent_changes", "get_file_status", "list_file_status",
     "read_list_variable", "read_all_list_variables"}

\* C36: a read operation called while project_meta.json exists and parses
\* leaves project_meta.json, and every other file of the store, as it was.
C36_ReadsDoNotWrite ==
    [][(last'.op \in ReadOps /\ Readable(fs)) => fs' = fs]_vars

\* read_all_plans has returned the converted plans of a legacy document that
\* is still stored in the legacy shape
C36_Witness ==
    /\ last.op = "read_all_plans"
    /\ last.exc = None
    /\ Len(last.ret) = 1
    /\ last.ret[1].id = LegacyId(<<"src">>)
    /\ StoredShape(fs, "dict")

\* get_file_status of a tracked file that is gone has returned None and the
\* record is still stored
C36_WitnessGone ==
    /\ last.op = "get_file_status"
    /\ last.exc = None
    /\ last.ret = None
    /\ ~files[absolute(last.args[1])].exists
    /\ Readable(fs)
    /\ lookup_key(last.args[1]) \in DOMAIN Stored(fs).file_status

\* ------------------------------------- each operation keeps to its collection
update_recent_changes(meta, current, archived) ==
    Saved([meta EXCEPT !.recent_changes.current = current,
                       !.recent_changes.archived = archived], TRUE)

\* the mutating operations, by name
Mutation(c, meta, fl, now) ==
    CASE c.op = "create_plan" -> create_plan(meta, c.args[1], c.args[2], now)
      [] c.op = "update_plan" -> update_plan(meta, c.args[1], c.args[2], c.args[3], now)
      [] c.op = "delete_plan" -> delete_plan(meta, c.args[1], now)
      [] c.op = "create_doc" -> create_doc(meta, c.args[1], c.args[2])
      [] c.op = "update_doc" -> update_doc(meta, c.args[1], c.args[2])
      [] c.op = "create_todo" -> create_todo(meta, c.args[1], c.args[2], c.args[3], now)
      [] c.op = "update_todo" -> update_todo(meta, c.args[1], c.args[2], c.args[3], now)
      [] c.op = "delete_todo" -> delete_todo(meta, c.args[1])
      [] c.op = "move_todo" -> move_todo(meta, c.args[1], c.args[2])
      [] c.op = "update_recent_changes" -> update_recent_changes(meta, c.args[1], c.args[2])
      [] c.op = "update_file_status" -> update_file_status(meta, fl, c.args[1], c.args[2], now)
      [] c.op = "create_list_variable" -> create_list_variable(meta, c.args[1], c.args[2], now)
      [] c.op = "update_list_variable" -> update_list_variable(meta, c.args[1], c.args[2], now)
      [] c.op = "append_to_list_variable" ->
            append_to_list_variable(meta, c.args[1], c.args[2], now)
      [] c.op = "remove_from_list_variable" ->
            remove_from_list_variable(meta, c.args[1], c.args[2], now)
      [] c.op = "delete_list_variable" -> delete_list_variable(meta, c.args[1])

PlanCalls ==
    {[op |-> "create_plan", args |-> <<(<<"c1">>), None>>],
     [op |-> "update_plan", args |-> <<PlanId(1), <<"c2">>, None>>],
     [op |-> "delete_plan", args |-> <<PlanId(1)>>],
     [op |-> "delete_plan", args |-> <<PlanId(2)>>]}
DocCalls ==
    {[op |-> "create_doc", args |-> <<(<<"lib">>), <<"d1">> >>],
     [op |-> "update_doc", args |-> <<(<<"src">>), <<"d2">> >>]}
TodoCalls ==
    {[op |-> "create_todo", args |-> <<(<<"c1">>), PlanId(1), <<"start">> >>],
     [op |-> "update_todo", args |-> <<TodoId(1), <<"completed">>, None>>],
     [op |-> "delete_todo", args |-> <<TodoId(1)>>],
     [op |-> "move_todo", args |-> <<TodoId(1), <<"end">> >>]}
RecentCalls ==
    {[op |-> "update_recent_changes", args |-> <<(<<"r2">>), <<"r1">> >>],
     [op |-> "update_recent_changes", args |-> <<(<<>>), <<"r1", "r2">> >>]}
AuditCalls ==
    {[op |-> "update_file_status", args |-> <<(<<"b.py">>), TRUE>>],
     [op |-> "update_file_status", args |-> <<(<<"a.py">>), FALSE>>]}
ListCalls ==
    {[op |-> "create_list_variable", args |-> <<"other", <<>> >>],
     [op |-> "update_list_variable", args |-> <<"skip_rules", Some(<<"i2">>)>>],
     [op |-> "append_to_list_variable", args |-> <<"other", "i1">>],
     [op |-> "remove_from_list_variable", args |-> <<"skip_rules", "i1">>],
     [op |-> "delete_list_variable", args |-> <<"skip_rules">>]}

\* one mutating call, of at most MaxCalls + 1 in a row; the document it found
\* is remembered in hist.before
Mutate(calls) ==
    \E c \in calls :
        LET r == Run(fs, LAMBDA m : Mutation(c, m, files, clock))
        IN  /\ hist.calls[1] <= MaxCalls
            /\ c.op = "create_plan" => Len(StoredPlans(fs)) < MaxPlans
            /\ c.op = "create_todo" => Len(StoredTodos(fs)) < MaxTodos
            /\ c.op = "append_to_list_variable" =>
                    (c.args[1] \in DOMAIN ListVariables(fs)
                        => Len(ListVariables(fs)[c.args[1]].items) < MaxItems)
            /\ fs' = r.fs
            /\ last' = [op |-> c.op, args |-> c.args, ret |-> r.ret, exc |-> r.exc]
            /\ hist' = [HistPlans(hist, r.fs, c.op, r) EXCEPT
                            !.before = IF Readable(fs) THEN Some(Stored(fs)) ELSE None,
                            !.calls[1] = @ + 1]
            /\ UNCHANGED <<files, clock, procs>>

PlanMutation == Mutate(PlanCalls)
DocMutation == Mutate(DocCalls)
TodoMutation == Mutate(TodoCalls)
RecentMutation == Mutate(RecentCalls)
AuditMutation == Mutate(AuditCalls)
ListMutation == Mutate(ListCalls)

\* a recent_changes that holds entries
RecentMeta ==
    [FullMeta EXCEPT !.recent_changes = [current |-> <<"r1">>, archived |-> <<"r0">>]]

InitFrame == StoreInit({RecentMeta, LegacyMeta})

NextFrame ==
    \/ PlanMutation
    \/ DocMutation
    \/ TodoMutation
    \/ RecentMutation
    \/ AuditMutation
    \/ ListMutation

SpecFrame == InitFrame /\ [][NextFrame]_vars

Collections == {"plans", "docs", "todos", "recent_changes", "file_status", "list_variables"}

CollectionOf(op) ==
    CASE op \in {"create_plan", "update_plan", "delete_plan"} -> "plans"
      [] op \in {"create_doc", "update_doc"} -> "docs"
      [] op \in {"create_todo", "update_todo", "delete_todo", "move_todo"} -> "todos"
      [] op = "update_recent_changes" -> "recent_changes"
      [] op = "update_file_status" -> "file_status"
      [] OTHER -> "list_variables"

\* C37: after a mutating operation on a document that parsed, every top-level
\* collection other than the operation's own is what it was before the call,
\* and after update_recent_changes(current, archived) recent_changes is
\* exactly {current, archived} as supplied.
C37_OwnCollectionOnly ==
    (last.op # "init" /\ hist.before # None)
        => /\ Readable(fs)
           /\ \A c \in Collections \ {CollectionOf(last.op)} :
                Stored(fs)[c] = hist.before[1][c]
           /\ last.op = "update_recent_changes"
                => Stored(fs).recent_changes
                     = [current |-> last.args[1], archived |-> last.args[2]]

\* update_recent_changes has replaced both lists, dropping the entries it was
\* not given, next to a document whose other collections hold entries
C37_Witness ==
    /\ last.op = "update_recent_changes"
    /\ hist.before # None
    /\ hist.before[1].recent_changes = [current |-> <<"r1">>, archived |-> <<"r0">>]
    /\ Stored(fs).recent_changes = [current |-> <<>>, archived |-> <<"r1", "r2">>]
    /\ Stored(fs).todos # <<>>
    /\ DOMAIN Stored(fs).docs # {}
    /\ DOMAIN Stored(fs).file_status # {}

\* delete_plan has removed a plan and the todos are those stored before
C37_WitnessPlan ==
    /\ last.op = "delete_plan"
    /\ last.exc = None
    /\ last.ret = TRUE
    /\ hist.before # None
    /\ Len(Stored(fs).plans.items) < Len(hist.before[1].plans.items)
    /\ Stored(fs).todos # <<>>

\* ------------------------------------------- staleness follows the content
\* C38: while the store holds a record of file_path with a file_hash,
\* get_file_status(file_path) returns audited = true exactly when the file
\* exists and the hash of its present content is the stored hash; so a file
\* changed and then given back its audited content is audited again without a
\* new update_file_status, and a changed file is audited for its new content
\* once update_file_status has marked it.
C38_StaleByContentOnly ==
    (/\ last.op = "get_file_status"
     /\ last.exc = None
     /\ Readable(fs)
     /\ lookup_key(last.args[1]) \in DOMAIN Stored(fs).file_status
     /\ "file_hash" \in DOMAIN Stored(fs).file_status[lookup_key(last.args[1])])
        => LET f == files[absolute(last.args[1])]
               rec == Stored(fs).file_status[lookup_key(last.args[1])]
               current == f.exists /\ sha256_hexdigest(f.data) = rec.file_hash
           IN  /\ (last.ret # None /\ last.ret[1].audited = TRUE) <=> current
               /\ (MarkedAs(absolute(last.args[1]), last.args[1])
                     /\ Unchanged(absolute(last.args[1]))) => current

\* a file reported as modified after its audit has its audited content again
\* and, with no update_file_status since, is reported audited
C38_Witness ==
    /\ last.op = "get_file_status"
    /\ last.ret # None
    /\ last.ret[1].audited = TRUE
    /\ "modified_after_audit" \notin DOMAIN last.ret[1]
    /\ hist.staleSeen[absolute(last.args[1])]
    /\ MarkedAs(absolute(last.args[1]), last.args[1])

\* a file marked again after a change is audited for the new content, which
\* was stale before the mark
C38_WitnessRemarked ==
    /\ last.op = "get_file_status"
    /\ last.ret # None
    /\ last.ret[1].audited = TRUE
    /\ last.ret[1].file_hash = sha256_hexdigest(<<"y">>)
    /\ last.ret[1].audited_at > 0
    /\ ~hist.staleSeen[absolute(last.args[1])]

\* ------------------------------------------------- constructing the manager
\* pm = ProjectManager(): __init__ runs _ensure_meta_file
ConstructManager ==
    /\ fs' = ensure_meta_file(fs)
    /\ last' = [op |-> "construct", args |-> <<>>, ret |-> None, exc |-> None]
    /\ hist' = HistPlans(hist, fs', "construct", last')
    /\ UNCHANGED <<files, clock, procs>>

\* the root holds no project_meta.json, a default, legacy or full document,
\* an empty file or the first chunk only of a document
InitConstruct ==
    /\ fs \in {[meta_file |-> d, temp_file |-> NoFile] :
                d \in {NoFile, File(json_dump(default_meta)), File(json_dump(LegacyMeta)),
                       File(json_dump(FullMeta)), File(<<>>),
                       File(<<Chunk(FullMeta, 1)>>)}}
    /\ files = [f \in AllFiles |-> File(<<"x">>)]
    /\ clock = 0
    /\ procs = [p \in Procs |-> Idle]
    /\ last = [op |-> "init", args |-> <<>>, ret |-> None, exc |-> None]
    /\ hist = Hist0(fs)

NextConstruct ==
    \/ ConstructManager
    \/ CreatePlan
    \/ DeletePlan
    \/ CreateTodo
    \/ RemoveMetaFile

SpecConstruct == InitConstruct /\ [][NextConstruct]_vars

\* C40: ProjectManager() on a root where project_meta.json exists leaves the
\* file as it is, whatever it holds; where the file is absent it writes the
\* default document.
C40_ConstructKeepsDocument ==
    [][last'.op = "construct"
        => IF fs[MetaPath].exists
           THEN fs' = fs
           ELSE fs'[MetaPath] = File(json_dump(default_meta))]_vars

\* a manager has been constructed on a document that holds a plan and a todo
C40_Witness ==
    /\ last.op = "construct"
    /\ Readable(fs)
    /\ StoredPlans(fs) # <<>>
    /\ StoredTodos(fs) # <<>>
    /\ Stored(fs).plans.kind = "list"

\* a manager has been constructed on a file that does not parse, and it is
\* still there
C40_WitnessUnparsed ==
    /\ last.op = "construct"
    /\ fs[MetaPath].exists
    /\ ~Parses(fs[MetaPath].data)

\* ------------------------------------------- callers that run step by step
\* Each access to the file system is a step of its own, so that the steps of
\* two callers interleave and a caller can die between any two of them.
\*   load -> (ensure -> (open -> write.. -> reload) | reload) -> body
\*        -> open -> write.. -> replace -> return
\* A caller's open file follows its inode: a rename of temp_file over
\* meta_file moves every file still open on temp_file to meta_file, and
\* leaves a file open on the old meta_file without a path ("unlinked").

\* the operations offered to the step-by-step callers
Body(op, args, meta, now) ==
    CASE op = "create_plan" -> create_plan(meta, args[1], args[2], now)
      [] op = "append_to_list_variable" ->
            append_to_list_variable(meta, args[1], args[2], now)

StepCalls ==
    {<<"create_plan", <<(<<"c1">>), None>> >>,
     <<"append_to_list_variable", <<"skip_rules", <<"i1">> >> >>}

\* a document in which create_list_variable("skip_rules", []) has run
ListMeta ==
    [default_meta EXCEPT !.list_variables =
        Put(<<>>, "skip_rules", [items |-> <<>>, created_at |-> 0, updated_at |-> 0])]

Returned(pr, r, x) ==
    [pr EXCEPT !.pc = "idle", !.ret = r, !.exc = x, !.fd = "closed", !.off = 0,
               !.cont = "none"]

\* the rest of the operation once _load_meta has returned meta
AfterLoad(pr, meta, now) ==
    LET b == Body(pr.op, pr.args, meta, now)
    IN  IF b.save
        THEN [pr EXCEPT !.pc = "open", !.meta = b.meta, !.ret = b.ret, !.cont = "return"]
        ELSE Returned([pr EXCEPT !.meta = b.meta], b.ret, b.exc)

LastOf(pr, p) == [op |-> pr.op, args |-> pr.args, ret |-> pr.ret, exc |-> pr.exc, proc |-> p]

\* procs and last after caller p moved to pr
Moved(p, pr) ==
    /\ procs' = [procs EXCEPT ![p] = pr]
    /\ last' = IF pr.pc = "idle" THEN LastOf(pr, p) ELSE last

\* the two calls in progress have both loaded and neither has begun to save
BothLoaded(ps) ==
    \A q \in Procs : ps[q].pc = "open" /\ ps[q].cont = "return"

Begin(p) ==
    \E call \in StepCalls :
        /\ procs[p].pc = "idle"
        /\ hist.calls[p] < MaxCalls
        /\ call[1] = "create_plan" => Len(StoredPlans(fs)) < MaxPlans
        /\ call[1] = "append_to_list_variable" =>
              /\ Readable(fs)
              /\ "skip_rules" \in DOMAIN Stored(fs).list_variables
              /\ Len(Stored(fs).list_variables["skip_rules"].items) < MaxItems
        /\ procs' = [procs EXCEPT ![p] =
                        [Idle EXCEPT !.pc = "load", !.op = call[1], !.args = call[2]]]
        /\ hist' = [hist EXCEPT !.bothLoaded = FALSE, !.lastSaver = 0,
                                 !.calls[p] = @ + 1]
        /\ UNCHANGED <<fs, files, clock, last>>

\* with open(self.meta_file) as f: return json.load(f)
Load(p) ==
    /\ procs[p].pc = "load"
    /\ LET pr == IF Readable(fs)
                 THEN AfterLoad(procs[p], json_load(fs[MetaPath].data), clock)
                 ELSE [procs[p] EXCEPT !.pc = "ensure"]
       IN  /\ Moved(p, pr)
           /\ hist' = [hist EXCEPT !.bothLoaded =
                          @ \/ BothLoaded([procs EXCEPT ![p] = pr])]
    /\ UNCHANGED <<fs, files, clock>>

\* except (JSONDecodeError, FileNotFoundError): self._ensure_meta_file()
Ensure(p) ==
    /\ procs[p].pc = "ensure"
    /\ Moved(p, IF ~fs[MetaPath].exists
                THEN [procs[p] EXCEPT !.pc = "open", !.meta = default_meta,
                                      !.cont = "reload"]
                ELSE [procs[p] EXCEPT !.pc = "reload"])
    /\ UNCHANGED <<fs, files, clock, hist>>

\* the second open and json.load of _load_meta, whose exceptions go to the caller
Reload(p) ==
    /\ procs[p].pc = "reload"
    /\ LET pr == IF Readable(fs)
                 THEN AfterLoad(procs[p], json_load(fs[MetaPath].data), clock)
                 ELSE Returned(procs[p], None,
                               Some([type |-> IF fs[MetaPath].exists
                                              THEN "JSONDecodeError"
                                              ELSE "FileNotFoundError",
                                     msg |-> <<>>]))
       IN  /\ Moved(p, pr)
           /\ hist' = [hist EXCEPT !.bothLoaded =
                          @ \/ BothLoaded([procs EXCEPT ![p] = pr])]
    /\ UNCHANGED <<fs, files, clock>>

\* with open(temp_file, 'w') as f:
SaveOpen(p) ==
    /\ procs[p].pc = "open"
    /\ fs' = open_w(fs, temp_file_of(MetaPath))
    /\ Moved(p, [procs[p] EXCEPT !.pc = "write", !.fd = temp_file_of(MetaPath), !.off = 0])
    /\ UNCHANGED <<files, clock, hist>>

\* one write of json.dump
SaveWrite(p) ==
    /\ procs[p].pc = "write"
    /\ procs[p].off < NChunks
    /\ fs' = IF procs[p].fd = "unlinked" THEN fs
             ELSE write_at(fs, procs[p].fd, procs[p].off,
                           json_dump(procs[p].meta)[procs[p].off + 1])
    /\ Moved(p, [procs[p] EXCEPT !.off = @ + 1])
    /\ UNCHANGED <<files, clock, hist>>

\* where a file open on path is after temp_file was renamed over meta_file
FollowRename(fd, src, dst) ==
    IF src = dst THEN fd
    ELSE IF fd = src THEN dst
    ELSE IF fd = dst THEN "unlinked"
    ELSE fd

\* the file is closed; temp_file.replace(self.meta_file)
SaveReplace(p) ==
    LET t == temp_file_of(MetaPath)
        pr == [procs[p] EXCEPT !.fd = "closed", !.off = 0]
    IN  /\ procs[p].pc = "write"
        /\ procs[p].off = NChunks
        /\ IF fs[t].exists
           THEN /\ fs' = replace(fs, t, MetaPath)
                /\ LET moved == [q \in Procs |->
                                    [procs[q] EXCEPT !.fd = FollowRename(@, t, MetaPath)]]
                       done == IF pr.cont = "return" THEN Returned(pr, pr.ret, None)
                               ELSE IF pr.cont = "reload" THEN [pr EXCEPT !.pc = "reload"]
                               ELSE Returned(pr, None, None)
                   IN  /\ procs' = [moved EXCEPT ![p] = done]
                       /\ last' = IF done.pc = "idle" /\ pr.cont = "return"
                                  THEN LastOf(done, p) ELSE last
                /\ hist' = [hist EXCEPT !.lastSaver = p]
           ELSE /\ fs' = fs
                /\ Moved(p, Returned(pr, None,
                                     Some([type |-> "FileNotFoundError", msg |-> <<>>])))
                /\ hist' = hist
        /\ UNCHANGED <<files, clock>>

\* the process of caller p dies; a new one is started in its place
Crash(p) ==
    /\ procs[p].pc # "idle"
    /\ procs' = [procs EXCEPT ![p] = [Idle EXCEPT !.pc = "construct"]]
    /\ last' = [op |-> "crash", args |-> <<>>, ret |-> None, exc |-> None, proc |-> p]
    /\ UNCHANGED <<fs, files, clock, hist>>

\* ProjectManager.__init__: self._ensure_meta_file()
Construct(p) ==
    /\ procs[p].pc = "construct"
    /\ Moved(p, IF ~fs[MetaPath].exists
                THEN [procs[p] EXCEPT !.pc = "open", !.meta = default_meta,
                                      !.cont = "constructed"]
                ELSE [procs[p] EXCEPT !.pc = "idle"])
    /\ UNCHANGED <<fs, files, clock, hist>>

StepInit(f, ps) ==
    /\ fs = f
    /\ files = [x \in AllFiles |-> File(<<"x">>)]
    /\ clock = 0
    /\ procs = ps
    /\ last = [op |-> "init", args |-> <<>>, ret |-> None, exc |-> None, proc |-> 0]
    /\ hist = Hist0(fs)

\* one caller, which can die: started on a root without project_meta.json
InitCrash ==
    StepInit([meta_file |-> NoFile, temp_file |-> NoFile],
             [p \in Procs |-> IF p = 1 THEN [Idle EXCEPT !.pc = "construct"] ELSE Idle])

NextCrash ==
    \E p \in {1} :
        \/ Begin(p)
        \/ Load(p)
        \/ Ensure(p)
        \/ Reload(p)
        \/ SaveOpen(p)
        \/ SaveWrite(p)
        \/ SaveReplace(p)
        \/ Crash(p)
        \/ Construct(p)
        \/ RemoveMetaFile

SpecCrash == InitCrash /\ [][NextCrash]_vars

\* two callers on a store that holds the list variable skip_rules
InitRace ==
    StepInit([meta_file |-> File(json_dump(ListMeta)), temp_file |-> NoFile],
             [p \in Procs |-> Idle])

NextRace ==
    \E p \in Procs :
        \/ Begin(p)
        \/ Load(p)
        \/ Ensure(p)
        \/ Reload(p)
        \/ SaveOpen(p)
        \/ SaveWrite(p)
        \/ SaveReplace(p)

SpecRace == InitRace /\ [][NextRace]_vars

\* C1: with one caller, which may die between any two steps of _save_meta,
\* project_meta.json is never a partial document, and whenever it changes it
\* goes in one step from the document it held to the complete document being
\* saved (or is removed by the user).
C1_CrashLeavesOldOrNew ==
    [][/\ fs'[MetaPath].exists => Parses(fs'[MetaPath].data)
       /\ fs'[MetaPath] \notin {fs[MetaPath], NoFile}
            => /\ procs[1].pc = "write"
               /\ procs[1].off = NChunks
               /\ fs'[MetaPath] = File(json_dump(procs[1].meta))]_vars

C1_Witness ==
    /\ last.op = "crash"
    /\ fs["temp_file"].exists
    /\ Len(fs["temp_file"].data) > 0
    /\ ~Parses(fs["temp_file"].data)
    /\ Readable(fs)
    /\ Stored(fs).plans.kind = "list"

\* C2: with two callers saving concurrently, project_meta.json always exists
\* and always parses: it holds a document some caller passed whole to
\* _save_meta.
C2_NoPartialAtRealPath ==
    /\ fs[MetaPath].exists
    /\ Parses(fs[MetaPath].data)

\* C3: when two mutating operations have both loaded before either began to
\* save, both return without an exception and the stored document is the one
\* the caller that renamed last passed to _save_meta.
C3_RaceBothSucceedLastWins ==
    (hist.bothLoaded /\ \A p \in Procs : procs[p].pc = "idle")
        => /\ \A p \in Procs : procs[p].exc = None
           /\ hist.lastSaver \in Procs
           /\ Readable(fs)
           /\ Stored(fs) = procs[hist.lastSaver].meta

\* a lost update: both returned, the stored document has one effect only
C3_LostUpdateReached ==
    /\ hist.bothLoaded
    /\ \A p \in Procs : procs[p].pc = "idle" /\ procs[p].exc = None
    /\ procs[1].op # procs[2].op
    /\ Readable(fs)
    /\ Stored(fs) = procs[hist.lastSaver].meta
    /\ \E p \in Procs : Stored(fs) # procs[p].meta

\* the two callers have returned from create_plan calls that had both loaded
\* before either began to save
BothCreated ==
    /\ hist.bothLoaded
    /\ \A p \in Procs :
        /\ procs[p].pc = "idle"
        /\ procs[p].op = "create_plan"
        /\ procs[p].exc = None
        /\ procs[p].ret # None

\* the plans of the document caller p loaded: create_plan appended one to them
LoadedPlans(p) ==
    SubSeq(procs[p].meta.plans.items, 1, Len(procs[p].meta.plans.items) - 1)

RecordsOf(f, plan_id) == {i \in 1..Len(StoredPlans(f)) : StoredPlans(f)[i].id = plan_id}

====
